---------------------------- MODULE Spec2Model ----------------------------
(***************************************************************************)
(* Model of the KI-Manager analysis core: ResponseParser.parse_response    *)
(* (src/response_parser.py) and AnalysisEngine.analyze_use_case            *)
(* (src/analysis_engine.py) with the prompt manager and LM Studio client   *)
(* calls it makes.                                                         *)
(*                                                                         *)
(* Texts are sequences of lexemes [k, s]: k is the lexeme class and s its  *)
(* characters.  A quoted string literal is one lexeme (class "str", s its  *)
(* content without the quotes), so are a number, a bare word, one          *)
(* whitespace character, one punctuation character, a code fence and the    *)
(* markdown markers.  String contents hold no quote, bracket, colon or     *)
(* comma.  Decoded JSON values are tagged records.  Confidences are exact  *)
(* rationals [n, d] (the code uses floats).                                *)
(***************************************************************************)
EXTENDS Integers, Sequences, FiniteSets, TLC

(***************************************************************************)
(* Lexemes                                                                 *)
(***************************************************************************)
P(c) == [k |-> "p", s |-> c]
S(c) == [k |-> "str", s |-> c]
N(c) == [k |-> "num", s |-> c]
W(c) == [k |-> "w", s |-> c]
M(c) == [k |-> "md", s |-> c]
SP == [k |-> "ws", s |-> " "]
NL == [k |-> "ws", s |-> "\n"]
\* The three-backtick code fence (a backtick cannot be written in a string here).
FENCE == [k |-> "fence", s |-> "'''"]
LBrace == P("{")
RBrace == P("}")
LBrack == P("[")
RBrack == P("]")
Colon == P(":")
Comma == P(",")

IsWs(tok) == tok.k = "ws"

\* The characters of a lexeme, and of a text.
Chars(tok) == IF tok.k \in {"str", "ctlstr"} THEN "\"" \o tok.s \o "\"" ELSE tok.s

RECURSIVE FlattenRange(_, _, _)
FlattenRange(text, lo, hi) ==
    IF lo > hi THEN ""
    ELSE IF lo = hi THEN Chars(text[lo])
    ELSE LET mid == (lo + hi) \div 2 IN
         FlattenRange(text, lo, mid) \o FlattenRange(text, mid + 1, hi)

Flatten(text) == FlattenRange(text, 1, Len(text))

\* The least and the greatest index of a set of indices, 0 when it is empty.
First(indices) ==
    IF indices = {} THEN 0
    ELSE CHOOSE i \in indices : \A j \in indices : i <= j

Last(indices) ==
    IF indices = {} THEN 0
    ELSE CHOOSE i \in indices : \A j \in indices : i >= j

LStrip(text) ==
    LET first == First({i \in 1..Len(text) : ~IsWs(text[i])}) IN
    IF first = 0 THEN <<>> ELSE SubSeq(text, first, Len(text))

RStrip(text) ==
    SubSeq(text, 1, Last({i \in 1..Len(text) : ~IsWs(text[i])}))

\* str.strip()
Strip(text) == RStrip(LStrip(text))

(***************************************************************************)
(* Decoded values                                                          *)
(***************************************************************************)
VStr(c) == [t |-> "str", s |-> c]
VNum(c) == [t |-> "num", s |-> c]
VLit(c) == [t |-> "lit", s |-> c]
VList(xs) == [t |-> "list", items |-> xs]
VDict(kvs) == [t |-> "dict", items |-> kvs]
KV(key, v) == [key |-> key, val |-> v]

IsDict(v) == v.t = "dict"
IsList(v) == v.t = "list"
IsVStr(v) == v.t = "str"

\* `key in data`
HasKey(d, key) == \E i \in 1..Len(d.items) : d.items[i].key = key

\* data[key]
GetKey(d, key) ==
    d.items[CHOOSE i \in 1..Len(d.items) : d.items[i].key = key].val

\* dict assignment d[key] = v: replaces in place, or appends.
DictPut(kvs, key, v) ==
    IF \E i \in 1..Len(kvs) : kvs[i].key = key
    THEN [i \in 1..Len(kvs) |-> IF kvs[i].key = key THEN KV(key, v) ELSE kvs[i]]
    ELSE Append(kvs, KV(key, v))

\* bool(v) of a decoded value
Truthy(v) ==
    CASE v.t = "dict" -> v.items # <<>>
      [] v.t = "list" -> v.items # <<>>
      [] v.t = "str" -> v.s # ""
      [] v.t = "num" -> v.s # "0"
      [] OTHER -> v.s = "true"

(***************************************************************************)
(* json.loads                                                              *)
(***************************************************************************)
NoWs(text) == SelectSeq(text, LAMBDA tok : ~IsWs(tok))

JFail == [ok |-> FALSE]
JOk(v, rest) == [ok |-> TRUE, val |-> v, rest |-> rest]

RECURSIVE ParseValue(_, _)
RECURSIVE ParseMembers(_, _, _)
RECURSIVE ParseElements(_, _, _)

\* One JSON value starting at ts[i]; rest is the index after it.
ParseValue(ts, i) ==
    IF i > Len(ts) THEN JFail
    ELSE LET tok == ts[i] IN
         CASE tok.k = "str" -> JOk(VStr(tok.s), i + 1)
           [] tok.k = "num" -> JOk(VNum(tok.s), i + 1)
           [] tok.k = "w" /\ tok.s \in {"true", "false", "null"} ->
                JOk(VLit(tok.s), i + 1)
           [] tok = LBrace ->
                IF i + 1 <= Len(ts) /\ ts[i + 1] = RBrace
                THEN JOk(VDict(<<>>), i + 2)
                ELSE ParseMembers(ts, i + 1, <<>>)
           [] tok = LBrack ->
                IF i + 1 <= Len(ts) /\ ts[i + 1] = RBrack
                THEN JOk(VList(<<>>), i + 2)
                ELSE ParseElements(ts, i + 1, <<>>)
           [] OTHER -> JFail

\* "key" : value pairs up to the closing brace.
ParseMembers(ts, i, acc) ==
    IF i + 1 > Len(ts) \/ ts[i].k # "str" \/ ts[i + 1] # Colon THEN JFail
    ELSE LET r == ParseValue(ts, i + 2) IN
         IF ~r.ok \/ r.rest > Len(ts) THEN JFail
         ELSE LET acc2 == DictPut(acc, ts[i].s, r.val) IN
              CASE ts[r.rest] = RBrace -> JOk(VDict(acc2), r.rest + 1)
                [] ts[r.rest] = Comma -> ParseMembers(ts, r.rest + 1, acc2)
                [] OTHER -> JFail

\* values up to the closing bracket.
ParseElements(ts, i, acc) ==
    LET r == ParseValue(ts, i) IN
    IF ~r.ok \/ r.rest > Len(ts) THEN JFail
    ELSE LET acc2 == Append(acc, r.val) IN
         CASE ts[r.rest] = RBrack -> JOk(VList(acc2), r.rest + 1)
           [] ts[r.rest] = Comma -> ParseElements(ts, r.rest + 1, acc2)
           [] OTHER -> JFail

\* json.loads(text): ok = FALSE stands for JSONDecodeError.
JsonLoads(text) ==
    LET ts == NoWs(text)
        r == ParseValue(ts, 1)
    IN  IF r.ok /\ r.rest = Len(ts) + 1 THEN [ok |-> TRUE, val |-> r.val]
        ELSE JFail

(***************************************************************************)
(* _clean_json_string                                                      *)
(***************************************************************************)
\* Index of the first lexeme at or after i that is not whitespace (Len + 1
\* when there is none).
SkipWs(text, i) ==
    LET first == First({j \in i..Len(text) : ~IsWs(text[j])}) IN
    IF first = 0 THEN Len(text) + 1 ELSE first

\* re.sub(r'```json\s*', '', s): every fence directly followed by "json",
\* with the whitespace after it, is removed.
RECURSIVE RemoveFenceJson(_, _)
RemoveFenceJson(text, i) ==
    LET m == First({j \in i..(Len(text) - 1) : text[j] = FENCE /\ text[j + 1] = W("json")})
    IN  IF m = 0 THEN SubSeq(text, i, Len(text))
        ELSE SubSeq(text, i, m - 1) \o RemoveFenceJson(text, SkipWs(text, m + 2))

\* re.sub(r'```\s*$', '', s): a fence that ends the text.
RemoveFenceEnd(text) ==
    LET r == RStrip(text) IN
    IF r # <<>> /\ r[Len(r)] = FENCE THEN SubSeq(r, 1, Len(r) - 1) ELSE text

\* (\w+):  ->  "\1":   a bare word or number directly before a colon.
QuoteKeys(text) ==
    [i \in 1..Len(text) |->
        IF text[i].k \in {"w", "num"} /\ i < Len(text) /\ text[i + 1] = Colon
        THEN S(text[i].s)
        ELSE text[i]]

\* First character outside [^"\[\{\d\-].
Excluded(tok) ==
    \/ tok.k \in {"str", "num"}
    \/ tok \in {LBrace, LBrack, M("-")}

GroupStop(tok) == tok \in {Comma, RBrace, RBrack}

\* Index after the last lexeme of [^,\}\]]* started at i.
GroupEnd(text, i) ==
    LET stop == First({j \in i..Len(text) : GroupStop(text[j])}) IN
    IF stop = 0 THEN Len(text) + 1 ELSE stop

\* A string literal made by the repair: one that holds a raw line break is
\* of class "ctlstr", which json.loads rejects (control character).
Literal(acc, ctl) == [k |-> IF ctl THEN "ctlstr" ELSE "str", s |-> acc]

\* The characters " + group + " read again as lexemes: the quotes of the
\* string literals inside the group close and reopen the new literal, and
\* what was their content stands bare between two literals.
RECURSIVE Requote(_, _, _)
Requote(group, acc, ctl) ==
    IF group = <<>> THEN <<Literal(acc, ctl)>>
    ELSE LET tok == Head(group) IN
         IF tok.k = "str"
         THEN <<Literal(acc, ctl)>>
                \o (IF tok.s = "" THEN <<>> ELSE <<W(tok.s)>>)
                \o Requote(Tail(group), "", FALSE)
         ELSE Requote(Tail(group), acc \o tok.s, ctl \/ tok = NL)

\* :\s*([^"\[\{\d\-][^,\}\]]*)  ->  : "\1"
\* After the colon \s* takes all the whitespace; when the next character is
\* excluded (or the text ends) it gives the last whitespace character back,
\* which then starts the group.
\* Where the group of a match at the colon text[i] starts, 0 when the
\* pattern does not match there.
GroupStart(text, i) ==
    LET j == SkipWs(text, i + 1) IN
    IF j <= Len(text) /\ ~Excluded(text[j]) THEN j
    ELSE IF j > i + 1 THEN j - 1
    ELSE 0

RECURSIVE QuoteValues(_, _)
QuoteValues(text, i) ==
    LET m == First({j \in i..Len(text) : text[j] = Colon /\ GroupStart(text, j) # 0})
    IN  IF m = 0 THEN SubSeq(text, i, Len(text))
        ELSE LET g == GroupStart(text, m)
                 e == GroupEnd(text, g + 1)
             IN  SubSeq(text, i, m - 1) \o <<Colon, SP>>
                   \o Requote(SubSeq(text, g, e - 1), "", FALSE)
                   \o QuoteValues(text, e)

\* ,\s*}  ->  }     and     ,\s*]  ->  ]
RECURSIVE RemoveTrailingComma(_, _, _)
RemoveTrailingComma(text, closer, i) ==
    LET m == First({j \in i..Len(text) :
                       /\ text[j] = Comma
                       /\ SkipWs(text, j + 1) <= Len(text)
                       /\ text[SkipWs(text, j + 1)] = closer})
    IN  IF m = 0 THEN SubSeq(text, i, Len(text))
        ELSE SubSeq(text, i, m - 1) \o <<closer>>
               \o RemoveTrailingComma(text, closer, SkipWs(text, m + 1) + 1)

CleanJsonString(json_str) ==
    LET stripped == Strip(json_str)
        nofence == RemoveFenceEnd(RemoveFenceJson(stripped, 1))
        keys == QuoteKeys(nofence)
        vals == QuoteValues(keys, 1)
        objs == RemoveTrailingComma(vals, RBrace, 1)
    IN  RemoveTrailingComma(objs, RBrack, 1)

(***************************************************************************)
(* Confidences: exact rationals in lowest terms                            *)
(***************************************************************************)
RECURSIVE Gcd(_, _)
Gcd(a, b) == IF b = 0 THEN a ELSE Gcd(b, a % b)

Rat(n, d) == LET g == Gcd(n, d) IN [n |-> n \div g, d |-> d \div g]
RMul(a, b) == Rat(a.n * b.n, a.d * b.d)
RAdd(a, b) == Rat(a.n * b.d + b.n * a.d, a.d * b.d)
RGt(a, b) == LET g == Gcd(a.d, b.d) IN a.n * (b.d \div g) > b.n * (a.d \div g)
RGe(a, b) == ~RGt(b, a)
RMin(a, b) == IF RGt(a, b) THEN b ELSE a
RZero == Rat(0, 1)
ROne == Rat(1, 1)

\* str.lower() on the words of the model's alphabet.
Lower(c) ==
    CASE c = "Gut" -> "gut"
      [] c = "GO" -> "go"
      [] c = "JSON" -> "json"
      [] OTHER -> c

(***************************************************************************)
(* _validate_structure and the two quality factors                         *)
(***************************************************************************)
\* self.expected_fields.get(expected_format, [])
ExpectedFields(expected_format) ==
    CASE expected_format = "structured_json" ->
            <<"zusammenfassung", "handlungsschritte", "technische_loesungen",
              "risiken", "chancen", "erfolgsmessung", "naechste_schritte">>
      [] expected_format = "quick_json" ->
            <<"machbarkeit", "aufwand", "kosten", "zeitrahmen", "empfehlung">>
      [] expected_format = "roi_json" ->
            <<"investition", "einsparungen", "roi", "empfehlung">>
      [] expected_format = "implementation_json" ->
            <<"projektphasen", "ressourcen", "timeline", "erfolgskriterien">>
      [] OTHER -> <<>>

RequiredStepFields == <<"titel", "beschreibung", "prioritaet">>

\* Number of the fields that are keys of data.
CountPresent(fields, data) ==
    Cardinality({i \in 1..Len(fields) : HasKey(data, fields[i])})

\* The factor one item of the handlungsschritte list contributes.
StepFactor(step) ==
    IF ~IsDict(step) THEN Rat(8, 10)
    ELSE Rat(CountPresent(RequiredStepFields, step), Len(RequiredStepFields))

RECURSIVE StepsQuality(_)
StepsQuality(steps) ==
    IF steps = <<>> THEN ROne
    ELSE RMul(StepFactor(Head(steps)), StepsQuality(Tail(steps)))

\* The bonus for a non-empty technische_loesungen list.
SolutionsBonus(data) ==
    IF /\ HasKey(data, "technische_loesungen")
       /\ IsList(GetKey(data, "technische_loesungen"))
       /\ GetKey(data, "technische_loesungen").items # <<>>
    THEN Rat(11, 10)
    ELSE ROne

\* Variant of _validate_analysis_structure without the final min(..., 1.0);
\* C8's range property has to tell it from the original.
UncappedQuality(data) ==
    RMul(IF /\ HasKey(data, "handlungsschritte")
            /\ IsList(GetKey(data, "handlungsschritte"))
         THEN StepsQuality(GetKey(data, "handlungsschritte").items)
         ELSE ROne,
         SolutionsBonus(data))

ValidateAnalysisStructure(data) ==
    LET stepsq == IF /\ HasKey(data, "handlungsschritte")
                     /\ IsList(GetKey(data, "handlungsschritte"))
                  THEN StepsQuality(GetKey(data, "handlungsschritte").items)
                  ELSE ROne
    IN  RMin(RMul(stepsq, SolutionsBonus(data)), ROne)

ValidFeasibility == {"sehr gut", "gut", "mittel", "schwierig", "unrealistisch"}
ValidRecommendations == {"go", "no-go", "überdenken"}

\* data.get(key, "").lower() raises AttributeError when the value is no string.
LowerRaises(data, key) == HasKey(data, key) /\ ~IsVStr(GetKey(data, key))
LowerOf(data, key) == IF HasKey(data, key) THEN Lower(GetKey(data, key).s) ELSE ""

FeasibilityRaises(data) ==
    LowerRaises(data, "machbarkeit") \/ LowerRaises(data, "empfehlung")

ValidateFeasibilityStructure(data) ==
    RMul(IF LowerOf(data, "machbarkeit") \in ValidFeasibility
         THEN ROne ELSE Rat(7, 10),
         IF LowerOf(data, "empfehlung") \in ValidRecommendations
         THEN ROne ELSE Rat(8, 10))

Validation(valid, confidence, errors, warnings) ==
    [raised |-> FALSE, valid |-> valid, confidence |-> confidence,
     errors |-> errors, warnings |-> warnings]

Raised(exc) == [raised |-> TRUE, exc |-> exc]

\* Variant of the confidence without the quality factors; C4's property has
\* to tell it from the original.
BaseConfidence(data, expected_format) ==
    IF ExpectedFields(expected_format) = <<>>
    THEN (IF data.items # <<>> THEN Rat(7, 10) ELSE RZero)
    ELSE Rat(CountPresent(ExpectedFields(expected_format), data),
             Len(ExpectedFields(expected_format)))

\* The confidence _validate_structure computes for a dictionary.
StructureConfidence(data, expected_format) ==
    LET fields == ExpectedFields(expected_format)
        base == Rat(CountPresent(fields, data), Len(fields))
    IN  IF fields = <<>>
        THEN (IF data.items # <<>> THEN Rat(7, 10) ELSE RZero)
        ELSE CASE expected_format = "structured_json" ->
                     RMul(base, ValidateAnalysisStructure(data))
               [] expected_format = "quick_json" ->
                     RMul(base, ValidateFeasibilityStructure(data))
               [] OTHER -> base

\* is_valid = confidence > 0.5 and not errors
IsValid(confidence, errors) == RGt(confidence, Rat(1, 2)) /\ errors = <<>>

ValidateStructure(data, expected_format) ==
    IF ~IsDict(data)
    THEN Validation(FALSE, RZero, <<"Response ist kein Dictionary">>, <<>>)
    ELSE LET fields == ExpectedFields(expected_format)
             present == CountPresent(fields, data)
             errors == IF fields # <<>> /\ present = 0
                       THEN <<"Keine erwarteten Felder gefunden">> ELSE <<>>
             warnings == IF present > 0 /\ present < Len(fields)
                         THEN <<"Fehlende Felder">> ELSE <<>>
         IN  IF expected_format = "quick_json" /\ fields # <<>>
                    /\ FeasibilityRaises(data)
             THEN Raised("AttributeError")
             ELSE LET confidence == StructureConfidence(data, expected_format)
                  IN  Validation(IsValid(confidence, errors), confidence,
                                 errors, warnings)

(***************************************************************************)
(* The parsing strategies.  A strategy yields Done(ParseResult) or         *)
(* Raised(exception).                                                      *)
(***************************************************************************)
ParseResult(success, data, format_detected, confidence, errors, warnings) ==
    [success |-> success, data |-> data, format_detected |-> format_detected,
     confidence |-> confidence, errors |-> errors, warnings |-> warnings]

Done(result) == [raised |-> FALSE, result |-> result]

EmptyDict == VDict(<<>>)

ValidatedResult(data, validation, format_detected) ==
    ParseResult(validation.valid, data, format_detected,
                validation.confidence, validation.errors, validation.warnings)

\* The result a strategy builds from data and its validation; an exception
\* of the validation leaves the strategy.
ValidatedOutcome(data, validation, format_detected) ==
    IF validation.raised THEN validation
    ELSE Done(ValidatedResult(data, validation, format_detected))

\* validation = self._validate_structure(data, expected_format) and the
\* ParseResult built from it.
ValidateDecoded(data, expected_format, format_detected) ==
    ValidatedOutcome(data, ValidateStructure(data, expected_format),
                     format_detected)

\* _parse_clean_json after json.loads(response.strip())
CleanJsonOutcome(decoded, expected_format) ==
    IF ~decoded.ok
    THEN Done(ParseResult(FALSE, EmptyDict, "none", RZero,
                          <<"JSON Decode Error">>, <<>>))
    ELSE ValidateDecoded(decoded.val, expected_format, "clean_json")

\* Strategy 1
ParseCleanJson(response, expected_format) ==
    CleanJsonOutcome(JsonLoads(Strip(response)), expected_format)

\* Index of the first lexeme equal to tok at or after i (0 when none).
IndexFrom(text, tok, i) == First({j \in i..Len(text) : text[j] = tok})

\* Index of the last lexeme equal to tok (0 when none).
LastIndex(text, tok) == Last({j \in 1..Len(text) : text[j] = tok})

\* re.findall(r'```json\s*(.*?)\s*```', response, DOTALL | IGNORECASE)
RECURSIVE FindJsonFences(_, _)
FindJsonFences(text, i) ==
    LET open == IndexFrom(text, FENCE, i) IN
    IF open = 0 \/ open >= Len(text) THEN <<>>
    ELSE IF text[open + 1].k = "w" /\ Lower(text[open + 1].s) = "json"
         THEN LET close == IndexFrom(text, FENCE, open + 2) IN
              IF close = 0 THEN <<>>
              ELSE <<Strip(SubSeq(text, open + 2, close - 1))>>
                     \o FindJsonFences(text, close + 1)
         ELSE FindJsonFences(text, open + 1)

\* re.findall(r'```\s*(.*?)\s*```', response, DOTALL | IGNORECASE)
RECURSIVE FindFences(_, _)
FindFences(text, i) ==
    LET open == IndexFrom(text, FENCE, i) IN
    IF open = 0 THEN <<>>
    ELSE LET close == IndexFrom(text, FENCE, open + 1) IN
         IF close = 0 THEN <<>>
         ELSE <<Strip(SubSeq(text, open + 1, close - 1))>>
                \o FindFences(text, close + 1)

\* re.findall(r'\{.*\}', ...) and re.findall(r'\[.*\]', ...): greedy, from
\* the first opener to the last closer after it.
FindSpan(text, opener, closer) ==
    LET first == IndexFrom(text, opener, 1)
        last == LastIndex(text, closer)
    IN  IF first # 0 /\ last > first THEN <<SubSeq(text, first, last)>>
        ELSE <<>>

\* The matches of self.json_patterns, in the order they are tried.
MarkdownCandidates(response) ==
    FindJsonFences(response, 1) \o FindFences(response, 1)
      \o FindSpan(response, LBrace, RBrace)
      \o FindSpan(response, LBrack, RBrack)

NoMarkdownJson ==
    Done(ParseResult(FALSE, EmptyDict, "none", RZero,
                     <<"Kein valides JSON in Markdown gefunden">>, <<>>))

\* json.loads(self._clean_json_string(candidate))
DecodeCandidate(candidate) == JsonLoads(CleanJsonString(candidate))

\* Strategy 2: the loop over the matches.
RECURSIVE TryMarkdown(_, _)
RECURSIVE MarkdownDecoded(_, _, _)
RECURSIVE MarkdownValidated(_, _, _)

TryMarkdown(candidates, expected_format) ==
    IF candidates = <<>> THEN NoMarkdownJson
    ELSE MarkdownDecoded(DecodeCandidate(Head(candidates)), Tail(candidates),
                         expected_format)

\* A match that does not decode is skipped (`except json.JSONDecodeError`).
MarkdownDecoded(decoded, rest, expected_format) ==
    IF ~decoded.ok THEN TryMarkdown(rest, expected_format)
    ELSE MarkdownValidated(
           ValidateDecoded(decoded.val, expected_format, "markdown_json"),
           rest, expected_format)

\* if validation["is_valid"] or validation["confidence"] > 0.5: return
MarkdownValidated(outcome, rest, expected_format) ==
    IF outcome.raised THEN outcome
    ELSE IF outcome.result.success
              \/ RGt(outcome.result.confidence, Rat(1, 2))
    THEN outcome
    ELSE TryMarkdown(rest, expected_format)

ParseMarkdownJson(response, expected_format) ==
    TryMarkdown(MarkdownCandidates(response), expected_format)

\* The brace scan of _parse_mixed_content: the balanced {...} spans.
RECURSIVE BraceScan(_, _, _, _)
\* The loop steps from brace to brace: no other character changes its state.
BraceScan(text, from, brace_start, brace_count) ==
    LET i == First({j \in from..Len(text) : text[j] \in {LBrace, RBrace}})
    IN  IF i = 0 THEN <<>>
        ELSE IF text[i] = LBrace
        THEN BraceScan(text, i + 1,
                       IF brace_count = 0 THEN i ELSE brace_start,
                       brace_count + 1)
        ELSE IF brace_count - 1 = 0 /\ brace_start # -1
        THEN <<SubSeq(text, brace_start, i)>> \o BraceScan(text, i + 1, -1, 0)
        ELSE BraceScan(text, i + 1, brace_start, brace_count - 1)

JsonCandidates(response) == BraceScan(response, 1, -1, 0)

NoResult == [none |-> TRUE]

\* `not best_result or validation["confidence"] > best_result.confidence`
BetterCandidate(confidence, best) ==
    best = NoResult \/ RGt(confidence, best.confidence)

\* The loop over the candidates: the best result (NoResult when none
\* decoded), or Raised.
RECURSIVE BestCandidate(_, _, _)
RECURSIVE CandidateDecoded(_, _, _, _)
RECURSIVE CandidateValidated(_, _, _, _)

BestCandidate(candidates, expected_format, best) ==
    IF candidates = <<>> THEN
        IF best = NoResult THEN NoResult ELSE Done(best)
    ELSE CandidateDecoded(DecodeCandidate(Head(candidates)), Tail(candidates),
                          expected_format, best)

\* A candidate that does not decode is skipped.
CandidateDecoded(decoded, rest, expected_format, best) ==
    IF ~decoded.ok THEN BestCandidate(rest, expected_format, best)
    ELSE CandidateValidated(
           ValidateDecoded(decoded.val, expected_format, "mixed_content"),
           rest, expected_format, best)

CandidateValidated(outcome, rest, expected_format, best) ==
    IF outcome.raised THEN outcome
    ELSE BestCandidate(rest, expected_format,
                       IF BetterCandidate(outcome.result.confidence, best)
                       THEN outcome.result
                       ELSE best)

(***************************************************************************)
(* Free-text extraction                                                    *)
(***************************************************************************)
\* The keywords of the text heuristics that occur in c.lower(), for every
\* word c of the model's alphabet (`keyword in text.lower()`).
Sub(c) ==
    CASE c = "zusammenfassung" -> {"zusammenfassung"}
      [] c = "handlungsschritte" -> {"handlungsschritte", "schritt", "schritte"}
      [] c = "technische_loesungen" -> {"technische"}
      [] c = "risiken" -> {"risiken"}
      [] c = "chancen" -> {"chancen"}
      [] c = "naechste_schritte" -> {"schritt", "schritte"}
      [] c = "machbarkeit" -> {"machbar", "machbarkeit"}
      [] c = "aufwand" -> {"aufwand"}
      [] c = "empfehlung" -> {"empfehlung"}
      [] c = "investition" -> {"investition"}
      [] c = "roi" -> {"roi"}
      [] c = "projektphasen" -> {"projektphasen"}
      [] c = "empfehlungen" -> {"empfehlung", "empfehlungen"}
      [] c = "gut" -> {"gut"}
      [] c = "Gut" -> {"gut"}
      [] c = "sehr gut" -> {"gut", "sehr gut"}
      [] c = "schwierig" -> {"schwierig"}
      [] c = "unrealistisch" -> {"realistisch", "unrealistisch"}
      [] c = "ja" -> {"ja"}
      [] c = "nein" -> {"nein"}
      [] c = "einfach" -> {"einfach"}
      [] c = "sollte" -> {"sollte"}
      [] c = "Schritt" -> {"schritt"}
      [] c = "wichtig" -> {"wichtig"}
      [] c = "Zusammenfassung" -> {"zusammenfassung"}
      [] c = "Risiken" -> {"risiken"}
      [] c = "Chancen" -> {"chancen"}
      [] c = "Schritte" -> {"schritt", "schritte"}
      [] c = "Tools" -> {"tools"}
      [] c = "Empfehlungen" -> {"empfehlung", "empfehlungen"}
      [] c = "Machbarkeit" -> {"machbar", "machbarkeit"}
      [] c = "Aufwand" -> {"aufwand"}
      [] c = "Empfehlung" -> {"empfehlung"}
      [] c = "Handlungsschritte" -> {"handlungsschritte", "schritt", "schritte"}
      [] c = "Nächste" -> {"nächste"}
      [] OTHER -> {}

\* The words that start with a character of [A-ZÄÖÜ].
Capitalised ==
    {"Analyse", "Aufwand", "Chancen", "Das", "Empfehlung",
     "Empfehlungen", "Ende", "GO", "Gut", "Handlungsschritte", "Hier",
     "JSON", "Machbarkeit", "Nächste", "Risiken", "Schritt", "Schritte",
     "Sonstiges", "Team", "Tests", "Text", "Tools", "Zusammenfassung"}

\* `keyword in text.lower()`; no keyword spans two lexemes of the alphabet.
Contains(text, keyword) == \E i \in 1..Len(text) : keyword \in Sub(text[i].s)

ContainsAny(text, keywords) == \E kw \in keywords : Contains(text, kw)

\* text.split('\n')
RECURSIVE SplitLines(_, _)
SplitLines(text, i) ==
    LET nl == IndexFrom(text, NL, i) IN
    IF nl = 0 THEN <<SubSeq(text, i, Len(text))>>
    ELSE <<SubSeq(text, i, nl - 1)>> \o SplitLines(text, nl + 1)

Lines(text) == SplitLines(text, 1)

\* text.split('\n\n')
RECURSIVE SplitParagraphs(_, _)
SplitParagraphs(text, i) ==
    LET gap == First({j \in i..(Len(text) - 1) : text[j] = NL /\ text[j + 1] = NL})
    IN  IF gap = 0 THEN <<SubSeq(text, i, Len(text))>>
        ELSE <<SubSeq(text, i, gap - 1)>> \o SplitParagraphs(text, gap + 2)

\* [p.strip() for p in text.split('\n\n') if p.strip()]
Paragraphs(text) ==
    LET ps == SplitParagraphs(text, 1)
        stripped == [i \in 1..Len(ps) |-> Strip(ps[i])]
    IN  SelectSeq(stripped, LAMBDA par : par # <<>>)

NoHeading == [none |-> TRUE]
Heading(title) == [none |-> FALSE, title |-> Strip(title)]

\* ^\*\*([^*]+)\*\*:?\s*$
BoldHeading(line) ==
    LET close == IndexFrom(line, M("**"), 2) IN
    IF /\ line # <<>> /\ line[1] = M("**")
       /\ close >= 3
       /\ SubSeq(line, close + 1, Len(line)) \in {<<>>, <<Colon>>}
    THEN Heading(SubSeq(line, 2, close - 1))
    ELSE NoHeading

\* ^#+\s*([^#\n]+)$
RECURSIVE SkipHashes(_, _)
SkipHashes(line, i) ==
    IF i <= Len(line) /\ line[i] = M("#") THEN SkipHashes(line, i + 1) ELSE i

HashHeading(line) ==
    LET rest == SubSeq(line, SkipHashes(line, 1), Len(line)) IN
    IF /\ line # <<>> /\ line[1] = M("#")
       /\ rest # <<>>
       /\ \A i \in 1..Len(rest) : rest[i] # M("#")
    THEN Heading(rest)
    ELSE NoHeading

\* ^([A-ZÄÖÜ][^:\n]*):$
LabelHeading(line) ==
    IF /\ Len(line) >= 2
       /\ line[1].k = "w" /\ line[1].s \in Capitalised
       /\ line[Len(line)] = Colon
       /\ \A i \in 1..(Len(line) - 1) : line[i] # Colon
    THEN Heading(SubSeq(line, 1, Len(line) - 1))
    ELSE NoHeading

\* The first heading pattern that matches the stripped line.
MatchHeading(line) ==
    IF BoldHeading(line) # NoHeading THEN BoldHeading(line)
    ELSE IF HashHeading(line) # NoHeading THEN HashHeading(line)
    ELSE LabelHeading(line)

Section(title, content) == [title |-> title, content |-> content]

\* sections[title] = content
SectionPut(sections, title, content) ==
    IF \E i \in 1..Len(sections) : sections[i].title = title
    THEN [i \in 1..Len(sections) |->
            IF sections[i].title = title THEN Section(title, content)
            ELSE sections[i]]
    ELSE Append(sections, Section(title, content))

\* '\n'.join(lines)
RECURSIVE JoinLines(_)
JoinLines(ls) ==
    IF ls = <<>> THEN <<>>
    ELSE IF Len(ls) = 1 THEN ls[1]
    ELSE ls[1] \o <<NL>> \o JoinLines(Tail(ls))

\* if current_section and current_content: sections[current_section] = ...
SaveSection(sections, current_section, current_content) ==
    IF current_section # <<>> /\ current_content # <<>>
    THEN SectionPut(sections, current_section, JoinLines(current_content))
    ELSE sections

RECURSIVE ScanSections(_, _, _, _)
ScanSections(ls, sections, current_section, current_content) ==
    IF ls = <<>>
    THEN SaveSection(sections, current_section, current_content)
    ELSE LET line == Strip(Head(ls))
             h == MatchHeading(line)
         IN  IF line = <<>>
             THEN ScanSections(Tail(ls), sections, current_section,
                               current_content)
             ELSE IF h # NoHeading
             THEN ScanSections(Tail(ls),
                               SaveSection(sections, current_section,
                                           current_content),
                               h.title, <<>>)
             ELSE ScanSections(Tail(ls), sections, current_section,
                               IF current_section # <<>>
                               THEN Append(current_content, line)
                               ELSE current_content)

FindTextSections(text) == ScanSections(Lines(text), <<>>, <<>>, <<>>)

\* The field -> keywords mapping of a format, in its order.
SectionMapping(expected_format) ==
    CASE expected_format = "structured_json" ->
           << <<"zusammenfassung", {"zusammenfassung", "summary", "einschätzung"}>>,
              <<"handlungsschritte",
                {"handlungsschritte", "schritte", "maßnahmen", "actions"}>>,
              <<"technische_loesungen",
                {"technische", "lösungen", "solutions", "tools"}>>,
              <<"risiken", {"risiken", "risks", "gefahren"}>>,
              <<"chancen", {"chancen", "opportunities", "vorteile"}>>,
              <<"naechste_schritte", {"nächste", "next steps", "empfehlungen"}>> >>
      [] expected_format = "quick_json" ->
           << <<"machbarkeit", {"machbarkeit", "feasibility"}>>,
              <<"aufwand", {"aufwand", "effort"}>>,
              <<"empfehlung", {"empfehlung", "recommendation"}>> >>
      [] OTHER -> <<>>

\* The mapped field, or "" for None.
MapSectionToField(section_title, expected_format) ==
    LET mapping == SectionMapping(expected_format)
        hits == {i \in 1..Len(mapping) : ContainsAny(section_title, mapping[i][2])}
    IN  IF hits = {} THEN ""
        ELSE mapping[CHOOSE i \in hits : \A j \in hits : i <= j][1]

\* The item of a list line, ^\s*[-*•]\s*(.+)$ .  A line that opens with the
\* bold marker is read as a bullet "*" followed by the item "*...".  The
\* numbered and lettered patterns need a '.' or ')' character, which no
\* lexeme of the alphabet holds.
NoItem == [none |-> TRUE]
Item(text) == [none |-> FALSE, text |-> Strip(text)]

ListItem(line) ==
    LET l == LStrip(line) IN
    IF l = <<>> THEN NoItem
    ELSE IF l[1] = M("-") /\ Len(l) >= 2 THEN Item(Tail(l))
    ELSE IF l[1] = M("**") THEN Item(<<M("*")>> \o Tail(l))
    ELSE NoItem

Lists(schritte, empfehlungen, allgemein) ==
    [schritte |-> schritte, empfehlungen |-> empfehlungen,
     allgemein |-> allgemein]

RECURSIVE ScanLists(_, _)
ScanLists(ls, lists) ==
    IF ls = <<>> THEN lists
    ELSE LET it == ListItem(Head(ls)) IN
         IF it = NoItem THEN ScanLists(Tail(ls), lists)
         ELSE LET v == VStr(Flatten(it.text)) IN
              ScanLists(Tail(ls),
                IF ContainsAny(it.text, {"schritt", "maßnahme", "aktion"})
                THEN [lists EXCEPT !.schritte = Append(@, v)]
                ELSE IF ContainsAny(it.text, {"empfehlung", "sollte", "muss"})
                THEN [lists EXCEPT !.empfehlungen = Append(@, v)]
                ELSE [lists EXCEPT !.allgemein = Append(@, v)])

ExtractListsFromText(text) == ScanLists(Lines(text), Lists(<<>>, <<>>, <<>>))

\* The loop over the sections of _extract_structured_text: the extracted
\* fields and the number of sections that were mapped to a field.
RECURSIVE MapSections(_, _, _, _)
MapSections(sections, expected_format, data, mapped) ==
    IF sections = <<>> THEN [data |-> data, mapped |-> mapped]
    ELSE LET field == MapSectionToField(Head(sections).title, expected_format)
         IN  IF field = ""
             THEN MapSections(Tail(sections), expected_format, data, mapped)
             ELSE MapSections(Tail(sections), expected_format,
                              DictPut(data, field,
                                      VStr(Flatten(Strip(Head(sections).content)))),
                              mapped + 1)

\* confidence = 0.4, += 0.1 for each mapped section, += 0.2 `if lists:` (the
\* lists dictionary always has its three keys, so it is always true).
StructuredTextConfidence(mapped) ==
    RMin(RAdd(RAdd(Rat(4, 10), Rat(mapped, 10)), Rat(2, 10)), ROne)

ExtractStructuredText(response, expected_format) ==
    LET m == MapSections(FindTextSections(response), expected_format, <<>>, 0)
        lists == ExtractListsFromText(response)
        data == IF expected_format = "structured_json"
                THEN DictPut(DictPut(m.data, "handlungsschritte",
                                     VList(lists.schritte)),
                             "naechste_schritte", VList(lists.empfehlungen))
                ELSE m.data
    IN  Done(ParseResult(data # <<>>, VDict(data), "structured_text",
                         StructuredTextConfidence(m.mapped), <<>>,
                         <<"Strukturierte Text-Extraktion">>))

\* if best_result: return best_result; otherwise the structured text
MixedOutcome(best, response, expected_format) ==
    IF best = NoResult THEN ExtractStructuredText(response, expected_format)
    ELSE best

\* Strategy 3
ParseMixedContent(response, expected_format) ==
    MixedOutcome(BestCandidate(JsonCandidates(response), expected_format,
                               NoResult),
                 response, expected_format)

ExtractFeasibilityFromText(text) ==
    LET feasibility ==
            IF ContainsAny(text, {"sehr gut", "excellent", "einfach"})
            THEN "sehr gut"
            ELSE IF ContainsAny(text, {"gut", "machbar", "realistisch"})
            THEN "gut"
            ELSE IF ContainsAny(text, {"schwierig", "herausfordernd", "komplex"})
            THEN "schwierig"
            ELSE IF ContainsAny(text, {"unrealistisch", "unmöglich",
                                       "nicht machbar"})
            THEN "unrealistisch"
            ELSE "mittel"
        effort ==
            IF ContainsAny(text, {"geringer aufwand", "wenig aufwand",
                                  "einfach"})
            THEN "gering"
            ELSE IF ContainsAny(text, {"hoher aufwand", "sehr aufwendig",
                                       "kompliziert"})
            THEN "hoch"
            ELSE "mittel"
        recommendation ==
            IF Contains(text, "empfehlung") /\ Contains(text, "ja") THEN "go"
            ELSE IF ContainsAny(text, {"nicht empfohlen", "nein", "stoppen"})
            THEN "no-go"
            ELSE IF feasibility \in {"sehr gut", "gut"}
                      /\ effort \in {"gering", "mittel"}
            THEN "go"
            ELSE "überdenken"
    IN  VDict(<<KV("machbarkeit", VStr(feasibility)),
               KV("aufwand", VStr(effort)),
               KV("empfehlung", VStr(recommendation)),
               KV("begruendung", VStr("Aus Freitext extrahiert"))>>)

\* paragraphs[0] if paragraphs else "Keine Zusammenfassung verfügbar"
FirstParagraph(text) ==
    LET ps == Paragraphs(text) IN
    IF ps # <<>> THEN Flatten(ps[1]) ELSE "Keine Zusammenfassung verfügbar"

ExtractAnalysisFromText(text) ==
    LET lists == ExtractListsFromText(text) IN
    VDict(<<KV("zusammenfassung", VStr(FirstParagraph(text))),
            KV("handlungsschritte",
               VList([i \in 1..Len(lists.schritte) |->
                        VDict(<<KV("titel", lists.schritte[i]),
                                KV("beschreibung", lists.schritte[i])>>)])),
            KV("naechste_schritte",
               VList(IF lists.empfehlungen # <<>> THEN lists.empfehlungen
                     ELSE lists.allgemein))>>)

\* The first paragraph, cut to 297 characters and "..." when it is longer
\* than 300.
ExtractSummary(text) ==
    LET summary == FirstParagraph(text) IN
    IF Paragraphs(text) # <<>> /\ Len(summary) > 300
    THEN VStr(SubSeq(summary, 1, 297) \o "...")
    ELSE VStr(summary)

ExtractRecommendations(text) ==
    LET ls == Lines(text)
        stripped == [i \in 1..Len(ls) |-> Strip(ls[i])]
        marked == SelectSeq(stripped, LAMBDA line :
                     ContainsAny(line, {"empfehlung", "sollte", "muss",
                                        "wichtig", "nächster schritt"}))
    IN  VList([i \in 1..Len(marked) |-> VStr(Flatten(marked[i]))])

\* The data _parse_fallback_text extracts for a format.
FallbackData(response, expected_format) ==
    CASE expected_format = "quick_json" -> ExtractFeasibilityFromText(response)
      [] expected_format = "structured_json" ->
           ExtractAnalysisFromText(response)
      [] OTHER -> VDict(<<KV("zusammenfassung", ExtractSummary(response)),
                          KV("empfehlungen", ExtractRecommendations(response))>>)

\* Strategy 4
ParseFallbackText(response, expected_format) ==
    LET extracted_data == FallbackData(response, expected_format) IN
    Done(ParseResult(Truthy(extracted_data), extracted_data, "fallback_text",
                     Rat(3, 10), <<>>, <<"Fallback Text-Parsing verwendet">>))

\* _create_text_fallback
CreateTextFallback(response, errors) ==
    VDict(<<KV("zusammenfassung",
               VStr("Parsing fehlgeschlagen - Originaltext verfügbar")),
            KV("raw_response", VStr(Flatten(response))),
            KV("parsing_errors", VList([i \in 1..Len(errors) |-> VStr(errors[i])])),
            KV("naechste_schritte",
               VList(<<VStr("Response manuell prüfen"),
                       VStr("Prompt-Template überarbeiten"),
                       VStr("KI-Modell-Parameter anpassen")>>))>>)

\* Variant that looks at the keywords before the brackets; C25's property
\* has to tell it from the original.
KeywordsBeforeBrackets(response) ==
    IF Contains(response, "projektphasen") THEN "implementation_json"
    ELSE IF Contains(response, "machbarkeit") THEN "quick_json"
    ELSE IF Contains(response, "investition") \/ Contains(response, "roi")
    THEN "roi_json"
    ELSE IF \E i \in 1..Len(response) :
               response[i] \in {LBrace, RBrace, LBrack, RBrack}
    THEN "structured_json"
    ELSE "text"

\* _detect_format
DetectFormat(response) ==
    IF \E i \in 1..Len(response) :
          response[i] \in {LBrace, RBrace, LBrack, RBrack}
    THEN IF Contains(response, "projektphasen") THEN "implementation_json"
         ELSE IF Contains(response, "machbarkeit") THEN "quick_json"
         ELSE IF Contains(response, "investition") \/ Contains(response, "roi")
         THEN "roi_json"
         ELSE "structured_json"
    ELSE "text"

(***************************************************************************)
(* The responses the model runs on, built from decoded values the way      *)
(* json.dumps writes them, bare or wrapped in prose                        *)
(***************************************************************************)
\* Largest number of items in a handlungsschritte list.
MaxSteps == 2
\* Largest number of headed sections in a free text.
MaxSections == 5

RECURSIVE Render(_, _)
RECURSIVE RenderMembers(_, _)
RECURSIVE RenderItems(_, _)

\* The JSON text of a value; sep is what follows every colon and comma
\* (nothing, or the space json.dumps writes).
Render(v, sep) ==
    IF v.t = "str" THEN <<S(v.s)>>
    ELSE IF v.t = "num" THEN <<N(v.s)>>
    ELSE IF v.t = "lit" THEN <<W(v.s)>>
    ELSE IF v.t = "list"
    THEN <<LBrack>> \o RenderItems(v.items, sep) \o <<RBrack>>
    ELSE <<LBrace>> \o RenderMembers(v.items, sep) \o <<RBrace>>

RenderMembers(kvs, sep) ==
    IF kvs = <<>> THEN <<>>
    ELSE <<S(kvs[1].key), Colon>> \o sep \o Render(kvs[1].val, sep)
           \o (IF Len(kvs) = 1 THEN <<>>
               ELSE <<Comma>> \o sep \o RenderMembers(Tail(kvs), sep))

RenderItems(xs, sep) ==
    IF xs = <<>> THEN <<>>
    ELSE Render(xs[1], sep)
           \o (IF Len(xs) = 1 THEN <<>>
               ELSE <<Comma>> \o sep \o RenderItems(Tail(xs), sep))

Compact == <<>>
Spaced == <<SP>>

\* The shapes of one handlungsschritte item: a dictionary with none, two or
\* all of the required step fields, or a plain string.
StepFields ==
    <<KV("titel", VStr("a")), KV("beschreibung", VStr("b")),
      KV("prioritaet", VStr("hoch"))>>

StepShapes == {VDict(SubSeq(StepFields, 1, n)) : n \in {0, 2, 3}} \cup {VStr("x")}

StepLists == UNION {[1..n -> StepShapes] : n \in 0..MaxSteps}

\* A full analysis: all seven fields.
FullAnalysis(steps, solutions) ==
    VDict(<<KV("zusammenfassung", VStr("x")),
            KV("handlungsschritte", VList(steps)),
            KV("technische_loesungen", VList(solutions)),
            KV("risiken", VList(<<>>)),
            KV("chancen", VList(<<>>)),
            KV("erfolgsmessung", VList(<<>>)),
            KV("naechste_schritte", VList(<<VStr("x")>>))>>)

FullAnalyses ==
    {FullAnalysis(steps, solutions) :
        steps \in StepLists, solutions \in {<<>>, <<VStr("x")>>}}

\* A full analysis whose handlungsschritte is a number, not a list.
NumberSteps ==
    VDict(DictPut(FullAnalysis(<<>>, <<>>).items, "handlungsschritte",
                  VNum("5")))

SchemaFormats ==
    {"structured_json", "quick_json", "roi_json", "implementation_json"}

\* An object with the first n required fields of a format, each a string.
PartialObject(format, n) ==
    VDict([i \in 1..n |-> KV(ExpectedFields(format)[i], VStr("x"))])

PartialObjects ==
    {PartialObject(format, n) :
        format \in SchemaFormats, n \in 1..4}
      \cup {PartialObject("structured_json", 7)}

\* Feasibility objects: machbarkeit and empfehlung absent, valid, invalid
\* or (machbarkeit) a number, with or without the three other fields.
Absent == [t |-> "absent"]

OptionalField(key, v) == IF v = Absent THEN <<>> ELSE <<KV(key, v)>>

QuickObject(machbarkeit, rest, empfehlung) ==
    VDict(OptionalField("machbarkeit", machbarkeit)
            \o (IF rest
                THEN <<KV("aufwand", VStr("mittel")), KV("kosten", VStr("x")),
                       KV("zeitrahmen", VStr("x"))>>
                ELSE <<>>)
            \o OptionalField("empfehlung", empfehlung))

QuickObjects ==
    {QuickObject(machbarkeit, rest, empfehlung) :
        machbarkeit \in {Absent, VStr("gut"), VStr("super"), VNum("5")},
        rest \in BOOLEAN,
        empfehlung \in {Absent, VStr("go"), VStr("x")}}

\* Feasibility objects with all five fields.
CompleteQuickObjects ==
    {QuickObject(machbarkeit, TRUE, empfehlung) :
        machbarkeit \in {VStr("gut"), VStr("super")},
        empfehlung \in {VStr("go"), VStr("no-go")}}

\* Values that are no dictionary, and a dictionary with a literal.
OtherValues ==
    {VList(<<VNum("1")>>), VStr("x"), VNum("5"),
     VDict(<<KV("machbarkeit", VStr("gut")), KV("aktiv", VLit("true"))>>)}

\* A string of n characters.
RECURSIVE Filler(_)
Filler(n) ==
    IF n = 0 THEN ""
    ELSE IF n % 2 = 1 THEN "x" \o Filler(n - 1)
    ELSE LET half == Filler(n \div 2) IN half \o half

\* Objects whose text is longer than 500, 1000 and 2000 characters.
LongObjects ==
    {VDict(<<KV("zusammenfassung", VStr(Filler(n))),
             KV("handlungsschritte", VList(<<>>)),
             KV("technische_loesungen", VList(<<>>)),
             KV("risiken", VList(<<>>))>>) : n \in {500, 1000, 2000}}

\* The wrappings of a JSON text.
Fenced(json) ==
    <<W("Text"), NL, FENCE, W("json"), NL>> \o json \o <<NL, FENCE, NL, W("Ende")>>

Embedded(json) == <<W("Hier"), SP>> \o json \o <<SP, W("Ende")>>

TwoSpans(first, second) == first \o <<SP, W("und"), SP>> \o second

\* First spans that do not match any schema.
FirstSpans ==
    {VDict(<<KV("a", VStr("x"))>>), VDict(<<KV("machbarkeit", VNum("5"))>>)}

JsonResponses ==
    {Render(v, Compact) :
        v \in FullAnalyses \cup PartialObjects \cup QuickObjects
                \cup OtherValues \cup LongObjects \cup {NumberSteps}}
      \cup {Render(v, Spaced) : v \in QuickObjects \cup PartialObjects}
      \cup {Fenced(Render(v, sep)) :
              v \in QuickObjects, sep \in {Compact, Spaced}}
      \cup {Embedded(Render(v, Compact)) : v \in QuickObjects}
      \cup {TwoSpans(Render(first, sep), Render(second, sep)) :
              first \in FirstSpans, second \in CompleteQuickObjects,
              sep \in {Compact, Spaced}}

\* JSON-like texts json.loads rejects.
MalformedResponses ==
    {<<LBrace, W("machbarkeit"), Colon, W("gut"), Comma, RBrace>>,
     <<LBrace, S("machbarkeit"), Colon, S("gut"), Comma, RBrace>>,
     <<LBrace, S("machbarkeit"), Colon>>,
     <<LBrack, N("1"), Comma, RBrack>>}

\* Free texts: k headed sections and, after them, a list item.
SectionTitles ==
    <<"Zusammenfassung", "Schritte", "Tools", "Risiken", "Chancen",
      "Empfehlungen">>

HeadingLine(style, title) ==
    IF style = "bold" THEN <<M("**"), W(title), M("**")>>
    ELSE IF style = "hash" THEN <<M("#"), M("#"), SP, W(title)>>
    ELSE <<W(title), Colon>>

RECURSIVE SectionsText(_, _)
SectionsText(style, k) ==
    IF k = 0 THEN <<>>
    ELSE SectionsText(style, k - 1)
           \o HeadingLine(style, SectionTitles[k]) \o <<NL, W("Text"), NL>>

ListLines ==
    {<<>>,
     <<M("-"), SP, W("Schritt"), SP, W("a")>>,
     <<M("-"), SP, W("Team"), SP, W("sollte"), SP, W("starten")>>,
     <<M("-"), SP, W("Tests")>>}

SectionCounts ==
    {k \in 0..MaxSections : k <= Len(SectionTitles)}

TextResponses ==
    {<<W("Das"), SP, W("ist"), SP, W("gut"), NL>> \o SectionsText(style, k) \o item :
        style \in {"bold", "hash", "label"}, k \in SectionCounts,
        item \in ListLines}
      \cup {<<W("Das"), SP, W("ist"), SP, W(w)>> :
              w \in {"schwierig", "unrealistisch", "einfach", "x"}}
      \cup {<<W("Empfehlung"), SP, W(w)>> : w \in {"ja", "nein"}}

EmptyResponses == {<<>>, <<SP>>, <<NL, SP>>}

\* Texts with the keywords of _detect_format, with and without brackets.
KeywordResponses ==
    {<<W("Machbarkeit"), SP, W("gut")>>,
     <<W("projektphasen"), SP, W("roi")>>,
     <<LBrack, W("roi"), SP, W("machbarkeit"), SP, W("projektphasen"), RBrack>>,
     <<LBrace, W("investition"), SP, W("Machbarkeit"), RBrace>>,
     <<W("roi"), RBrack>>}

Responses ==
    JsonResponses \cup MalformedResponses \cup TextResponses
      \cup EmptyResponses \cup KeywordResponses

Formats == SchemaFormats \cup {"auto", "text"}

(***************************************************************************)
(* parse_response as a state machine: one step per strategy of the loop    *)
(***************************************************************************)
VARIABLES
    raw_response,     \* argument of parse_response
    expected_format,  \* argument of parse_response
    fmt,              \* expected_format after auto-detection
    p_pc,             \* "idle", "call", "loop", "returned", "raised"
    strategy,         \* index of the next strategy of parse_strategies
    ran,              \* names of the strategies run so far, in order
    results,          \* what each of them yielded, in order
    errors,           \* the errors list
    best_result,      \* the best partial result, NoResult for None
    ret               \* the returned data, NoValue before the return

pvars == <<raw_response, expected_format, fmt, p_pc, strategy, ran, results,
           errors, best_result, ret>>

\* analyze_use_case and the generate_completion call it makes
VARIABLES
    e_pc,             \* position in analyze_use_case, "idle" outside a call
    template_name,    \* argument of analyze_use_case
    company_profile,  \* argument of analyze_use_case
    use_case,         \* argument of analyze_use_case
    stages,           \* the stages begun so far, in order
    calls,            \* number of calls of generate_completion
    attempt,          \* loop variable of generate_completion
    last_error,       \* last_error of generate_completion
    waits,            \* the time.sleep arguments of generate_completion
    messages,         \* the formatted prompt
    api_response,     \* the API response
    parsed_response,  \* what parse_response returned
    analysis,         \* the AIAnalysis object
    exc               \* the exception that left analyze_use_case

evars == <<e_pc, template_name, company_profile, use_case, stages, calls,
           attempt, last_error, waits, messages, api_response, parsed_response,
           analysis, exc>>

\* The requests of the running generate_completion call
VARIABLES
    sent              \* what became of each request sent so far, in order

\* The configuration of the client and check_connection
VARIABLES
    model_name,       \* self.config.model_name
    params,           \* params["model"] of the running generate_completion
    check             \* the last check_connection: the name before it, the
                      \* answer to it and how it ended; NoValue before

lvars == <<model_name, params, check>>

\* The window of the application and its workspace
VARIABLES
    window,                 \* "open", "destroyed" after root.destroy()
    current_document_type,  \* Workspace.current_document_type, "" for None
    has_changes,            \* Workspace.has_changes
    form_entries,           \* the texts of the two required fields
    event                   \* the last handler run, with the answer to its
                            \* dialog and the outcome of the storage

gvars == <<window, current_document_type, has_changes, form_entries, event>>

\* The public methods of AnalysisEngine that call analyze_use_case
VARIABLES
    method,           \* the method the caller invoked, "" before the call
    use_cases,        \* argument of compare_use_cases and of
                      \* analyze_multiple_scenarios
    visited,          \* indices of the use cases handed on so far, in order
    outcomes,         \* how the analysis of each of them ended, in order
    collected,        \* feasibility_results, or analyses
    q_pc,             \* position in quick_feasibility_check or in
                      \* generate_implementation_roadmap
    q_ret,            \* what that method returned
    c_pc,             \* position in the method that loops over use_cases
    c_ret             \* what that method returned or raised

cvars ==
    <<method, use_cases, visited, outcomes, collected, q_pc, q_ret, c_pc,
      c_ret>>

NoValue == [none |-> TRUE]

ParseStrategies ==
    <<"_parse_clean_json", "_parse_markdown_json", "_parse_mixed_content",
      "_parse_fallback_text">>

\* Variant of the strategy list with the first and the last strategy
\* exchanged; C2's property has to tell it from the original.
RunFallbackFirst(k, response, expected) ==
    CASE k = 1 -> ParseFallbackText(response, expected)
      [] k = 2 -> ParseMarkdownJson(response, expected)
      [] k = 3 -> ParseMixedContent(response, expected)
      [] k = 4 -> ParseCleanJson(response, expected)

\* strategy(raw_response, expected_format) for the k-th strategy
RunStrategy(k, response, expected) ==
    CASE k = 1 -> ParseCleanJson(response, expected)
      [] k = 2 -> ParseMarkdownJson(response, expected)
      [] k = 3 -> ParseMixedContent(response, expected)
      [] k = 4 -> ParseFallbackText(response, expected)

\* Variant of the empty check without the .strip() half; C1's property has
\* to tell it from the original.
IsEmptyString(response) == response = <<>>

\* `not raw_response or not raw_response.strip()`
IsEmptyResponse(response) == Strip(response) = <<>>

\* `best_result is None or result.confidence > best_result.confidence`
BetterResult(result, best) ==
    best = NoResult \/ RGt(result.confidence, best.confidence)

\* What parse_response returns after the loop.
AfterLoop(response, errs, best) ==
    IF best # NoResult /\ Truthy(best.data) THEN best.data
    ELSE CreateTextFallback(response, errs)

\* The parser state before a call.
ParserIdle ==
    /\ fmt = "" /\ strategy = 0 /\ ran = <<>> /\ results = <<>>
    /\ errors = <<>> /\ best_result = NoResult /\ ret = NoValue

\* A caller invokes parse_response(raw_response, expected_format).
ParseCall ==
    /\ method = ""
    /\ method' = "parse_response"
    /\ p_pc = "idle"
    /\ e_pc = "idle"
    /\ \E response \in Responses, format \in Formats :
          /\ raw_response' = response
          /\ expected_format' = format
    /\ p_pc' = "call"
    /\ UNCHANGED <<fmt, strategy, ran, results, errors, best_result, ret>>
    /\ UNCHANGED evars
    /\ UNCHANGED <<use_cases, visited, outcomes, collected, q_pc, q_ret, c_pc,
                   c_ret, sent, lvars, gvars>>

\* Entry of parse_response: the empty check and the format detection.
ParseEnter ==
    /\ p_pc = "call"
    /\ IF IsEmptyResponse(raw_response)
       THEN /\ p_pc' = "raised"
            /\ UNCHANGED <<fmt, strategy>>
       ELSE /\ p_pc' = "loop"
            /\ fmt' = IF expected_format = "auto"
                      THEN DetectFormat(raw_response)
                      ELSE expected_format
            /\ strategy' = 1
    /\ UNCHANGED <<raw_response, expected_format, ran, results, errors,
                   best_result, ret>>
    /\ UNCHANGED evars
    /\ UNCHANGED <<cvars, sent, lvars, gvars>>

\* all_errors after a strategy: its name when it raised, the errors of its
\* result otherwise.
CollectErrors(out, name) ==
    IF out.raised THEN Append(errors, name)
    ELSE errors \o out.result.errors

\* best_result after a strategy.
KeepBest(out) ==
    IF ~out.raised /\ BetterResult(out.result, best_result)
    THEN out.result
    ELSE best_result

\* One iteration of the loop over parse_strategies; the code after the
\* loop runs with the last iteration.
TryStrategy ==
    /\ p_pc = "loop"
    /\ strategy <= Len(ParseStrategies)
    /\ \E out \in {RunStrategy(strategy, raw_response, fmt)} :
          /\ ran' = Append(ran, ParseStrategies[strategy])
          /\ results' = Append(results, out)
          /\ IF ~out.raised /\ out.result.success
             THEN /\ ret' = out.result.data
                  /\ p_pc' = "returned"
                  /\ UNCHANGED <<errors, best_result, strategy>>
             ELSE /\ errors' = CollectErrors(out, ParseStrategies[strategy])
                  /\ best_result' = KeepBest(out)
                  /\ strategy' = strategy + 1
                  /\ IF strategy = Len(ParseStrategies)
                     THEN /\ ret' = AfterLoop(raw_response, errors',
                                              best_result')
                          /\ p_pc' = "returned"
                     ELSE UNCHANGED <<ret, p_pc>>
    /\ UNCHANGED <<raw_response, expected_format, fmt>>
    /\ UNCHANGED evars
    /\ UNCHANGED <<cvars, sent, lvars, gvars>>

(***************************************************************************)
(* PromptTemplateManager (src/promt_templates.py)                          *)
(***************************************************************************)
\* self.templates: the expected_format of each predefined template.
templates ==
    [use_case_analysis |-> "structured_json",
     quick_feasibility |-> "quick_json",
     roi_analysis |-> "roi_json",
     implementation_plan |-> "implementation_json"]

None == [t |-> "none"]

\* self.templates.get(template_name)
get_template(name) ==
    IF name \in DOMAIN templates
    THEN [expected_format |-> templates[name]]
    ELSE None

\* d.get(key, default)
Get(d, key, default) == IF HasKey(d, key) THEN GetKey(d, key) ELSE default

\* str.strip() on the characters of a string value.
IsSpace(c) == c \in {" ", "\n", "\t"}

Inked(c) == {i \in 1..Len(c) : ~IsSpace(SubSeq(c, i, i))}

StrStrip(c) == IF Inked(c) = {} THEN "" ELSE SubSeq(c, First(Inked(c)), Last(Inked(c)))

\* `not d.get(field, '').strip()`; .strip() raises AttributeError when the
\* value is no string.
StripRaises(d, field) == ~IsVStr(Get(d, field, VStr("")))
IsMissing(d, field) == StrStrip(Get(d, field, VStr("")).s) = ""

\* Variant of the check that stops at the first missing field; C24's
\* property has to tell it from the original.
FirstMissingOnly(d, prefix, fields) ==
    IF \E i \in 1..Len(fields) : IsMissing(d, fields[i])
    THEN <<prefix \o fields[CHOOSE i \in 1..Len(fields) :
                              /\ IsMissing(d, fields[i])
                              /\ \A j \in 1..(i - 1) : ~IsMissing(d, fields[j])]>>
    ELSE <<>>

RECURSIVE MissingFields(_, _, _)
MissingFields(d, prefix, fields) ==
    IF fields = <<>> THEN <<>>
    ELSE (IF IsMissing(d, Head(fields))
          THEN <<prefix \o Head(fields)>> ELSE <<>>)
           \o MissingFields(d, prefix, Tail(fields))

required_company_fields == <<"unternehmensname", "branche">>
required_use_case_fields == <<"beschreibung">>

Invalid(missing_fields) == Done([valid |-> FALSE, missing_fields |-> missing_fields])
Valid == Done([valid |-> TRUE])

\* The result for a known template and string fields.
MissingResult(missing_fields) ==
    IF missing_fields # <<>> THEN Invalid(missing_fields) ELSE Valid

\* Variant of validate_template_data that accepts everything; C9's property
\* has to tell it from the original.
AlwaysValid(name, profile, case) == Valid

validate_template_data(name, profile, case) ==
    IF get_template(name) = None THEN Invalid(<<>>)
    ELSE IF \/ \E i \in 1..Len(required_company_fields) :
                  StripRaises(profile, required_company_fields[i])
            \/ \E i \in 1..Len(required_use_case_fields) :
                  StripRaises(case, required_use_case_fields[i])
    THEN Raised("AttributeError")
    ELSE MissingResult(
           MissingFields(profile, "Unternehmen.", required_company_fields)
             \o MissingFields(case, "UseCase.", required_use_case_fields))

\* _format_selected_items(d.get(key, {})) calls .items() on the value.
SelectedItemsRaise(d, key) == ~IsDict(Get(d, key, EmptyDict))

\* `if use_case.get('bewertung'):` use_case['bewertung'].items()
BewertungRaises(case) ==
    /\ HasKey(case, "bewertung")
    /\ Truthy(GetKey(case, "bewertung"))
    /\ ~IsDict(GetKey(case, "bewertung"))

\* use_case.get('beschreibung', '')[:100] + '...' needs a string.
TitleRaises(case) == ~IsVStr(Get(case, "beschreibung", VStr("")))

\* The prompt: the system prompt of the template and the user prompt with
\* the values formatted into it.
Messages(name, profile, case) ==
    <<[role |-> "system", template |-> name],
      [role |-> "user",
       company_name |-> Get(profile, "unternehmensname", VStr("Unbekannt")),
       company_branch |-> Get(profile, "branche", VStr("Unbekannt")),
       use_case_description |-> Get(case, "beschreibung", VStr(""))]>>

format_prompt(name, profile, case) ==
    IF get_template(name) = None THEN Raised("ValueError")
    ELSE IF \/ SelectedItemsRaise(profile, "digitale_systeme")
            \/ SelectedItemsRaise(profile, "herausforderungen")
            \/ SelectedItemsRaise(case, "ki_faehigkeiten")
            \/ SelectedItemsRaise(case, "strategische_vorteile")
            \/ BewertungRaises(case)
    THEN Raised("AttributeError")
    ELSE IF TitleRaises(case) THEN Raised("TypeError")
    ELSE Done(Messages(name, profile, case))

(***************************************************************************)
(* AnalysisEngine._calculate_confidence_score (src/analysis_engine.py)     *)
(***************************************************************************)
expected_fields(name) ==
    CASE name = "use_case_analysis" ->
            <<"zusammenfassung", "handlungsschritte", "technische_loesungen">>
      [] name = "quick_feasibility" -> <<"machbarkeit", "aufwand", "empfehlung">>
      [] name = "roi_analysis" -> <<"investition", "einsparungen", "roi">>
      [] name = "implementation_plan" -> <<"projektphasen", "timeline">>
      [] OTHER -> <<>>

\* Variant that counts the completeness as zero when the template has no
\* field list; C12's mean has to tell it from the original.
CompletenessOrZero(parsed_data, required_fields) ==
    IF required_fields # <<>>
    THEN <<Rat(CountPresent(required_fields, parsed_data),
               Len(required_fields))>>
    ELSE <<RZero>>

\* Faktor 1, left out when the template has no field list.
CompletenessFactors(parsed_data, required_fields) ==
    IF required_fields # <<>>
    THEN <<Rat(CountPresent(required_fields, parsed_data),
               Len(required_fields))>>
    ELSE <<>>

\* Faktor 2, on len(raw_response).
LengthScore(response_length) ==
    IF response_length > 2000 THEN ROne
    ELSE IF response_length > 1000 THEN Rat(8, 10)
    ELSE IF response_length > 500 THEN Rat(6, 10)
    ELSE Rat(4, 10)

\* Faktor 3
StructureScore(parsed_data) ==
    IF Truthy(parsed_data) /\ IsDict(parsed_data) THEN ROne ELSE Rat(3, 10)

recommendation_fields ==
    <<"handlungsschritte", "technische_loesungen", "naechste_schritte">>

\* len(v): defined for lists, dictionaries and strings.
Sized(v) == v.t \in {"list", "dict", "str"}
SizeOf(v) == IF v.t = "str" THEN Len(v.s) ELSE Len(v.items)

RECURSIVE TotalRecommendations(_, _)
TotalRecommendations(parsed_data, fields) ==
    IF fields = <<>> THEN 0
    ELSE (IF HasKey(parsed_data, Head(fields))
          THEN SizeOf(GetKey(parsed_data, Head(fields))) ELSE 0)
           + TotalRecommendations(parsed_data, Tail(fields))

\* Faktor 4
DetailScore(total_recommendations) ==
    IF total_recommendations >= 5 THEN ROne
    ELSE IF total_recommendations >= 3 THEN Rat(8, 10)
    ELSE IF total_recommendations >= 1 THEN Rat(6, 10)
    ELSE Rat(2, 10)

RECURSIVE RSum(_)
RSum(factors) ==
    IF factors = <<>> THEN RZero
    ELSE RAdd(Head(factors), RSum(Tail(factors)))

\* sum(confidence_factors) / len(confidence_factors), 0.5 for no factor
Mean(confidence_factors) ==
    IF confidence_factors # <<>>
    THEN RMul(RSum(confidence_factors), Rat(1, Len(confidence_factors)))
    ELSE Rat(1, 2)

_calculate_confidence_score(parsed_data, response_text, name) ==
    IF \E i \in 1..Len(recommendation_fields) :
          /\ HasKey(parsed_data, recommendation_fields[i])
          /\ ~Sized(GetKey(parsed_data, recommendation_fields[i]))
    THEN Raised("TypeError")
    ELSE Done(Mean(
           CompletenessFactors(parsed_data, expected_fields(name))
             \o <<LengthScore(Len(Flatten(response_text))),
                  StructureScore(parsed_data),
                  DetailScore(TotalRecommendations(parsed_data,
                                                   recommendation_fields))>>))

(***************************************************************************)
(* The calls of analyze_use_case the model runs on                         *)
(***************************************************************************)
TemplateNames == DOMAIN templates \cup {"unbekannt"}

\* A required field: absent, empty, blank, filled, or no string.
FieldValues == {Absent, VStr(""), VStr(" "), VStr("X"), VNum("5")}

CompanyProfiles ==
    {VDict(OptionalField("unternehmensname", name)
             \o OptionalField("branche", branche)
             \o OptionalField("digitale_systeme", systems)) :
        name \in FieldValues, branche \in FieldValues,
        systems \in {Absent, VDict(<<KV("ERP", VLit("true"))>>), VStr("ERP")}}

UseCases ==
    {VDict(OptionalField("beschreibung", beschreibung)) :
        beschreibung \in FieldValues}

\* The company profile of the calls of the methods built on
\* analyze_use_case, the feasibility check apart.
ListedProfile ==
    VDict(<<KV("unternehmensname", VStr("X")), KV("branche", VStr("X"))>>)

\* response.json() of a 200 answer: no choices, or one choice with content.
ApiResponse(choices) == [choices |-> choices]
ApiResponses ==
    {ApiResponse(<<>>)}
      \cup {ApiResponse(<<[content |-> content]>>) : content \in Responses}

TransientFailures == {"http_error", "timeout", "network_error"}

\* The 200 answers to a request that follows a failed one.
RetryAnswers ==
    {ApiResponse(<<>>),
     ApiResponse(<<[content |->
                      Render(QuickObject(VStr("gut"), TRUE, VStr("go")),
                             Compact)]>>)}

\* Feasibility answers: the efforts and recommendations the check tells
\* apart, an upper-case recommendation, an effort that is a number, and a
\* text without JSON.
QuickTexts ==
    {Render(VDict(<<KV("machbarkeit", VStr("gut")), KV("aufwand", aufwand),
                    KV("empfehlung", empfehlung)>>), Compact) :
        aufwand \in {VStr("gering"), VStr("mittel"), VStr("sehr hoch"),
                     VStr("x"), VNum("5")},
        empfehlung \in {VStr("go"), VStr("no-go"), VStr("GO")}}
      \cup {Render(QuickObject(VStr("gut"), FALSE, VStr("go")), Compact),
            Render(QuickObject(VStr("gut"), FALSE, VStr("no-go")), Compact),
            Render(QuickObject(VStr("gut"), FALSE, VStr("überdenken")), Compact),
            Render(QuickObject(Absent, FALSE, VStr("no-go")), Compact),
            Render(QuickObject(VStr("gut"), TRUE, Absent), Compact),
            <<W("Empfehlung"), SP, W("ja")>>,
            <<SP>>}

QuickAnswers ==
    {ApiResponse(<<>>)}
      \cup {ApiResponse(<<[content |-> content]>>) : content \in QuickTexts}

\* Largest number of phases in a roadmap answer.
MaxPhases == 2

\* Durations of a phase: numeric-looking text, an integer, a fraction, a
\* text that is no number, the text float() reads as not-a-number, null,
\* and no duration at all.
Durations ==
    {VStr("4"), VNum("3"), VNum("1.5"), VStr("x"), VStr("nan"),
     VLit("null"), Absent}

Phase(dauer_wochen) == VDict(OptionalField("dauer_wochen", dauer_wochen))

PhaseLists ==
    {VList(phases) :
        phases \in UNION {[1..n -> {Phase(d) : d \in Durations}] :
                            n \in 0..MaxPhases}}

\* A roadmap object with all four fields.
RoadmapObject(projektphasen) ==
    VDict(<<KV("projektphasen", projektphasen), KV("ressourcen", VStr("x")),
            KV("timeline", VStr("x")), KV("erfolgskriterien", VStr("x"))>>)

\* Roadmap answers: every phase list, a phase list that is no list or holds
\* a phase that is no object, an object with the phase list only, and a
\* text without JSON.
RoadmapTexts ==
    {Render(RoadmapObject(projektphasen), Compact) :
        projektphasen \in PhaseLists
                            \cup {VStr("x"), VNum("5"),
                                  VList(<<VStr("x")>>)}}
      \cup {Render(VDict(<<KV("projektphasen",
                              VList(<<Phase(VStr("4")), Phase(VNum("3"))>>))>>),
                   Compact),
            <<W("Empfehlung"), SP, W("ja")>>}

RoadmapAnswers ==
    {ApiResponse(<<>>)}
      \cup {ApiResponse(<<[content |-> content]>>) : content \in RoadmapTexts}

\* The answers to the requests of analyze_multiple_scenarios: no choices, or
\* a complete analysis.
MultipleAnswers ==
    {ApiResponse(<<>>),
     ApiResponse(<<[content |->
                      Render(PartialObject("structured_json", 7), Compact)]>>)}

\* The 200 answers the model runs on, by the method the caller invoked and
\* the number of requests that failed before.
Answers(invoked, failed) ==
    IF invoked = "analyze_multiple_scenarios" THEN MultipleAnswers
    ELSE IF failed > 0 THEN RetryAnswers
    ELSE IF invoked = "analyze_use_case" THEN ApiResponses
    ELSE IF invoked = "generate_implementation_roadmap" THEN RoadmapAnswers
    ELSE QuickAnswers

\* LMStudioConfig.max_retries
max_retries == 3

(***************************************************************************)
(* analyze_use_case as a state machine: one step per stage, and one per    *)
(* attempt of generate_completion                                          *)
(***************************************************************************)
EngineIdle ==
    /\ e_pc = "idle"
    /\ template_name = "" /\ company_profile = EmptyDict
    /\ use_case = EmptyDict
    /\ stages = <<>> /\ calls = 0
    /\ attempt = 0 /\ last_error = None /\ waits = <<>>
    /\ messages = NoValue /\ api_response = NoValue
    /\ parsed_response = NoValue
    /\ analysis = NoValue /\ exc = NoValue

\* No method of the engine has been called.
CallerIdle ==
    /\ method = "" /\ use_cases = <<>> /\ visited = <<>> /\ outcomes = <<>>
    /\ collected = <<>>
    /\ q_pc = "idle" /\ q_ret = NoValue
    /\ c_pc = "idle" /\ c_ret = NoValue

\* Variant without the two except clauses: the cause leaves as it is.
\* C10's property has to tell it from the original.
Unwrapped(cause) == [type |-> cause, cause |-> cause]

\* `except LMStudioError` and `except Exception`: whatever is raised inside
\* the try block leaves as an AnalysisEngineError built from it.
Wrapped(cause) == [type |-> "AnalysisEngineError", cause |-> cause]

Fail(cause) ==
    /\ e_pc' = "raised"
    /\ exc' = Wrapped(cause)

\* A caller invokes analyze_use_case(company_profile, use_case, template_name).
Analyze ==
    /\ method = ""
    /\ method' = "analyze_use_case"
    /\ e_pc = "idle"
    /\ p_pc = "idle"
    /\ \E name \in TemplateNames, profile \in CompanyProfiles,
          case \in UseCases :
          /\ template_name' = name
          /\ company_profile' = profile
          /\ use_case' = case
    /\ e_pc' = "validate"
    /\ UNCHANGED <<stages, calls, attempt, last_error, waits, messages,
                   api_response, parsed_response, analysis, exc>>
    /\ UNCHANGED pvars
    /\ UNCHANGED <<use_cases, visited, outcomes, collected, q_pc, q_ret, c_pc,
                   c_ret, sent, lvars, gvars>>

\* validation = self.prompt_manager.validate_template_data(...)
Validate ==
    /\ e_pc = "validate"
    /\ stages' = Append(stages, "validate")
    /\ \E validation \in {validate_template_data(template_name,
                                                 company_profile, use_case)} :
          IF validation.raised THEN Fail(validation.exc)
          ELSE IF ~validation.result.valid THEN Fail("AnalysisEngineError")
          ELSE /\ e_pc' = "build_prompt"
               /\ UNCHANGED exc
    /\ UNCHANGED <<template_name, company_profile, use_case, calls, attempt,
                   last_error, waits, messages, api_response, parsed_response,
                   analysis>>
    /\ UNCHANGED pvars
    /\ UNCHANGED <<cvars, sent, lvars, gvars>>

\* messages = format_prompt(...) and template = get_template(...)
BuildPrompt ==
    /\ e_pc = "build_prompt"
    /\ stages' = Append(stages, "build_prompt")
    /\ \E formatted \in {format_prompt(template_name, company_profile,
                                       use_case)} :
          IF formatted.raised
          THEN Fail(formatted.exc) /\ UNCHANGED messages
          ELSE /\ messages' = formatted.result
               /\ IF get_template(template_name) = None
                  THEN Fail("AnalysisEngineError")
                  ELSE e_pc' = "call_model" /\ UNCHANGED exc
    /\ UNCHANGED <<template_name, company_profile, use_case, calls, attempt,
                   last_error, waits, api_response, parsed_response, analysis>>
    /\ UNCHANGED pvars
    /\ UNCHANGED <<cvars, sent, lvars, gvars>>

\* Entry of self.lm_client.generate_completion(messages, ...)
CallModel ==
    /\ e_pc = "call_model"
    /\ stages' = Append(stages, "call_model")
    /\ calls' = calls + 1
    /\ attempt' = 0
    /\ last_error' = None
    /\ waits' = <<>>
    /\ sent' = <<>>
    /\ params' = model_name
    /\ UNCHANGED <<model_name, check, gvars>>
    /\ IF max_retries = 0
       THEN Fail("LMStudioError")
       ELSE e_pc' = "attempt" /\ UNCHANGED exc
    /\ UNCHANGED <<template_name, company_profile, use_case, messages,
                   api_response, parsed_response, analysis>>
    /\ UNCHANGED pvars
    /\ UNCHANGED cvars

\* Variant of the request that reads the configured model name at every
\* attempt; C29's property has to tell it from the original.
RequestWithConfiguredName(kind, body) ==
    [kind |-> kind, body |-> body, model |-> model_name]

\* One request and what became of it: the model name in its parameters,
\* the kind of its outcome ("ok" for status 200, "validation_error" for
\* status 422, or a transient failure) and the kind of the body that came
\* with a response.
Request(kind, body) == [kind |-> kind, body |-> body, model |-> params]

\* Bodies of a 200 or 422 response that response.json() or the .get() on
\* its value does not get through: a JSON value that is no object, and a
\* text that is no JSON.
BadBodies == {"array", "text"}

\* What response.json() raises on a text that is no JSON: an exception of
\* the RequestException family (requests 2.27 and later) or a plain
\* ValueError (before); which one depends on the installed library.
DecodeErrors == {"RequestException", "ValueError"}

\* The end of generate_completion by an exception; the locals end with it.
Abort(cause) ==
    /\ Fail(cause)
    /\ attempt' = 0 /\ last_error' = None
    /\ UNCHANGED waits

\* Variant of the assignment to last_error that keeps the first failure;
\* C21's property has to tell it from the original.
FirstError(previous, failure) ==
    IF attempt = 0 THEN failure ELSE previous

\* `last_error = LMStudioError(error_msg)`: the failure of this attempt
\* takes the place of the one before.
LastError(previous, failure) == failure

\* Variant of the wait that does not grow; C22's property has to tell it
\* from the original.
UnitBackoff(k) == 1

\* `2 ** attempt`, the argument of time.sleep after failed attempt k.
Backoff(k) == 2 ^ k

\* `raise last_error` after the loop, as analyze_use_case hands it on: the
\* reason of the LMStudioError is the failure last_error holds.
Exhausted(reason) ==
    /\ e_pc' = "raised"
    /\ exc' = [type |-> "AnalysisEngineError", cause |-> "LMStudioError",
               reason |-> reason]
    /\ attempt' = 0 /\ last_error' = None
    /\ UNCHANGED waits

\* The handling of a failed attempt: the failure is kept in last_error and,
\* when an attempt is left, the loop waits 2 ** attempt seconds and goes
\* on; after the last attempt last_error is raised.
Retries(failure) ==
    IF attempt + 1 < max_retries
    THEN /\ last_error' = LastError(last_error, failure)
         /\ waits' = Append(waits, Backoff(attempt))
         /\ attempt' = attempt + 1
         /\ UNCHANGED <<e_pc, exc>>
    ELSE Exhausted(LastError(last_error, failure))

\* One iteration of the retry loop of generate_completion.  A 200 answer
\* returns its decoded body and a 422 answer raises LMStudioError, both
\* after response.json() and the .get() on its value; a body that is no
\* object raises AttributeError there, and a body that is no JSON raises
\* what response.json() raises, which the `except RequestException` clause
\* takes for a network error when it is of that family.  Any other failure
\* is kept in last_error and raised after the last attempt.  The locals end
\* with the call; the waits and the requests sent are what the call leaves
\* behind.
Attempt ==
    /\ e_pc = "attempt"
    /\ \/ \E body \in Answers(method, attempt) :
            /\ sent' = Append(sent, Request("ok", "object"))
            /\ api_response' = body
            /\ e_pc' = "extract_text"
            /\ attempt' = 0 /\ last_error' = None
            /\ UNCHANGED <<exc, waits>>
       \/ /\ sent' = Append(sent, Request("validation_error", "object"))
          /\ Abort("LMStudioError")
          /\ UNCHANGED api_response
       \/ \E kind \in {"ok", "validation_error"}, body \in BadBodies,
             error \in DecodeErrors :
            /\ sent' = Append(sent, Request(kind, body))
            /\ UNCHANGED api_response
            /\ IF body = "array" THEN Abort("AttributeError")
               ELSE IF error = "RequestException"
               THEN Retries("network_error")
               ELSE Abort("ValueError")
       \/ \E failure \in TransientFailures :
            /\ sent' = Append(sent, Request(failure, "none"))
            /\ UNCHANGED api_response
            /\ Retries(failure)
    /\ UNCHANGED <<template_name, company_profile, use_case, stages, calls,
                   messages, parsed_response, analysis>>
    /\ UNCHANGED pvars
    /\ UNCHANGED <<cvars, lvars, gvars>>

\* raw_response = self.lm_client.extract_response_text(response)
ExtractText ==
    /\ e_pc = "extract_text"
    /\ stages' = Append(stages, "extract_text")
    /\ IF \/ api_response.choices = <<>>
          \/ api_response.choices[1].content = <<>>
       THEN Fail("LMStudioError") /\ UNCHANGED raw_response
       ELSE /\ raw_response' = Strip(api_response.choices[1].content)
            /\ e_pc' = "parse"
            /\ UNCHANGED exc
    /\ UNCHANGED <<template_name, company_profile, use_case, calls, attempt,
                   last_error, waits, messages, api_response, parsed_response,
                   analysis>>
    /\ UNCHANGED <<expected_format, fmt, p_pc, strategy, ran, results, errors,
                   best_result, ret>>
    /\ UNCHANGED <<cvars, sent, lvars, gvars>>

\* The call parse_response(raw_response, template.expected_format)
Parse ==
    /\ e_pc = "parse"
    /\ p_pc = "idle"
    /\ stages' = Append(stages, "parse")
    /\ expected_format' = get_template(template_name).expected_format
    /\ p_pc' = "call"
    /\ e_pc' = "parsing"
    /\ UNCHANGED <<template_name, company_profile, use_case, calls, attempt,
                   last_error, waits, messages, api_response, parsed_response,
                   analysis, exc>>
    /\ UNCHANGED <<raw_response, fmt, strategy, ran, results, errors,
                   best_result, ret>>
    /\ UNCHANGED <<cvars, sent, lvars, gvars>>

\* parse_response returns to analyze_use_case, or raises.
ParseReturn ==
    /\ e_pc = "parsing"
    /\ p_pc \in {"returned", "raised"}
    /\ IF p_pc = "raised"
       THEN Fail("ValueError") /\ UNCHANGED parsed_response
       ELSE /\ parsed_response' = ret
            /\ e_pc' = "populate"
            /\ UNCHANGED exc
    /\ UNCHANGED <<template_name, company_profile, use_case, stages, calls,
                   attempt, last_error, waits, messages, api_response, analysis>>
    /\ UNCHANGED pvars
    /\ UNCHANGED <<cvars, sent, lvars, gvars>>

\* analysis = AIAnalysis(...) and self._populate_analysis_fields
Populate ==
    /\ e_pc = "populate"
    /\ stages' = Append(stages, "populate")
    /\ analysis' =
         [id |-> "analysis_id",
          template_used |-> template_name,
          prompt_messages |-> messages,
          raw_response |-> raw_response,
          analysis_summary |-> Get(parsed_response, "zusammenfassung", VStr("")),
          implementation_steps |->
              Get(parsed_response, "handlungsschritte", VList(<<>>)),
          technical_solutions |->
              Get(parsed_response, "technische_loesungen", VList(<<>>)),
          risks |-> Get(parsed_response, "risiken", VList(<<>>)),
          opportunities |-> Get(parsed_response, "chancen", VList(<<>>)),
          success_metrics |-> Get(parsed_response, "erfolgsmessung", VList(<<>>)),
          next_steps |-> Get(parsed_response, "naechste_schritte", VList(<<>>)),
          recommendations |-> Get(parsed_response, "empfehlungen", VList(<<>>)),
          confidence_score |-> RZero]
    /\ e_pc' = "score"
    /\ UNCHANGED <<template_name, company_profile, use_case, calls, attempt,
                   last_error, waits, messages, api_response, parsed_response,
                   exc>>
    /\ UNCHANGED pvars
    /\ UNCHANGED <<cvars, sent, lvars, gvars>>

\* analysis.confidence_score = self._calculate_confidence_score(...) and
\* the return.
Score ==
    /\ e_pc = "score"
    /\ stages' = Append(stages, "score")
    /\ \E score \in {_calculate_confidence_score(parsed_response,
                                                 raw_response,
                                                 template_name)} :
          IF score.raised
          THEN Fail(score.exc) /\ UNCHANGED analysis
          ELSE /\ analysis' = [analysis EXCEPT !.confidence_score = score.result]
               /\ e_pc' = "returned"
               /\ UNCHANGED exc
    /\ UNCHANGED <<template_name, company_profile, use_case, calls, attempt,
                   last_error, waits, messages, api_response, parsed_response>>
    /\ UNCHANGED pvars
    /\ UNCHANGED <<cvars, sent, lvars, gvars>>

(***************************************************************************)
(* quick_feasibility_check (src/analysis_engine.py)                        *)
(***************************************************************************)
\* The call analyze_use_case(profile, case, name) made by another method of
\* the engine: the engine, its client and its parser start afresh.
StartAnalyze(name, profile, case) ==
    /\ template_name' = name
    /\ company_profile' = profile
    /\ use_case' = case
    /\ e_pc' = "validate"
    /\ stages' = <<>> /\ calls' = 0
    /\ attempt' = 0 /\ last_error' = None /\ waits' = <<>> /\ sent' = <<>>
    /\ UNCHANGED <<lvars, gvars>>
    /\ messages' = NoValue /\ api_response' = NoValue
    /\ parsed_response' = NoValue
    /\ analysis' = NoValue /\ exc' = NoValue
    /\ p_pc' = "idle" /\ raw_response' = <<>> /\ expected_format' = ""
    /\ fmt' = "" /\ strategy' = 0 /\ ran' = <<>> /\ results' = <<>>
    /\ errors' = <<>> /\ best_result' = NoResult /\ ret' = NoValue

\* The call parse_response(analysis.raw_response, format) that follows the
\* analysis.
StartReparse(format) ==
    /\ raw_response' = analysis.raw_response
    /\ expected_format' = format
    /\ p_pc' = "call"
    /\ fmt' = "" /\ strategy' = 0 /\ ran' = <<>> /\ results' = <<>>
    /\ errors' = <<>> /\ best_result' = NoResult /\ ret' = NoValue

\* str(e) of the exception that left analyze_use_case; the text of the
\* inner exception is stood for by the name of its type.
Str(e) ==
    IF e.cause = "LMStudioError" THEN "LM Studio Fehler: " \o e.cause
    ELSE "Analyse fehlgeschlagen: " \o e.cause

\* Variant that compares the recommendation without regard to case; C14's
\* equivalence has to tell it from the original.
IsGoAnyCase(parsed_data) ==
    /\ HasKey(parsed_data, "empfehlung")
    /\ IsVStr(GetKey(parsed_data, "empfehlung"))
    /\ Lower(GetKey(parsed_data, "empfehlung").s) = "go"

\* `parsed_data.get("empfehlung", "überdenken") == "go"`
IsGo(parsed_data) ==
    /\ HasKey(parsed_data, "empfehlung")
    /\ IsVStr(GetKey(parsed_data, "empfehlung"))
    /\ GetKey(parsed_data, "empfehlung").s = "go"

\* The record of a check that went through.
QuickRecord(parsed_data, full_analysis) ==
    [analysis_id |-> full_analysis.id,
     feasible |-> IsGo(parsed_data),
     feasibility_level |-> Get(parsed_data, "machbarkeit", VStr("mittel")),
     effort |-> Get(parsed_data, "aufwand", VStr("mittel")),
     cost_estimate |-> Get(parsed_data, "kosten", VStr("unbekannt")),
     timeframe |-> Get(parsed_data, "zeitrahmen", VStr("unbekannt")),
     main_obstacles |-> Get(parsed_data, "haupthindernisse", VList(<<>>)),
     confidence |-> full_analysis.confidence_score,
     full_analysis |-> full_analysis]

\* Variant of the failure record that keeps the message to itself; C13's
\* record has to tell it from the original.
SilentFailure(message) == [feasible |-> FALSE, confidence |-> RZero]

\* The record of the `except Exception` clause.
QuickFailure(message) ==
    [feasible |-> FALSE, error |-> message, confidence |-> RZero]

\* A caller invokes quick_feasibility_check(company_profile, use_case).
QuickCheck ==
    /\ method = ""
    /\ method' = "quick_feasibility_check"
    /\ e_pc = "idle"
    /\ p_pc = "idle"
    /\ \E profile \in CompanyProfiles, case \in UseCases :
          StartAnalyze("quick_feasibility", profile, case)
    /\ q_pc' = "analysing"
    /\ UNCHANGED <<use_cases, visited, outcomes, collected, q_ret, c_pc, c_ret>>

\* analyze_use_case has returned: the call of parse_response on its
\* raw_response.
QuickReparse ==
    /\ q_pc = "analysing"
    /\ template_name = "quick_feasibility"
    /\ e_pc = "returned"
    /\ StartReparse("quick_json")
    /\ q_pc' = "reparsing"
    /\ UNCHANGED <<evars, sent, lvars, gvars>>
    /\ UNCHANGED <<method, use_cases, visited, outcomes, collected, q_ret, c_pc,
                   c_ret>>

\* The return of quick_feasibility_check: the record of the check, or the
\* record of the failure when analyze_use_case or parse_response raised.
QuickDone ==
    /\ template_name = "quick_feasibility"
    /\ \/ /\ q_pc = "analysing"
          /\ e_pc = "raised"
          /\ q_ret' = QuickFailure(Str(exc))
       \/ /\ q_pc = "reparsing"
          /\ p_pc = "raised"
          /\ q_ret' = QuickFailure("Leere Response erhalten")
       \/ /\ q_pc = "reparsing"
          /\ p_pc = "returned"
          /\ q_ret' = QuickRecord(ret, analysis)
    /\ q_pc' = "returned"
    /\ UNCHANGED <<pvars, evars, sent, lvars, gvars>>
    /\ UNCHANGED <<method, use_cases, visited, outcomes, collected, c_pc, c_ret>>

(***************************************************************************)
(* generate_implementation_roadmap (src/analysis_engine.py)                *)
(***************************************************************************)
\* A Python float: a finite value, or not-a-number.
Finite(value) == [nan |-> FALSE, value |-> value]
NaN == [nan |-> TRUE]

\* The value of the number lexemes of the model's alphabet.
NumberValue(c) ==
    CASE c = "0" -> Rat(0, 1)
      [] c = "1" -> Rat(1, 1)
      [] c = "3" -> Rat(3, 1)
      [] c = "4" -> Rat(4, 1)
      [] c = "5" -> Rat(5, 1)
      [] c = "1.5" -> Rat(3, 2)

\* float(c) on the strings of the model's alphabet; the strings that are
\* no number stand for the ValueError.
ToFloat(c) ==
    CASE c \in {"0", "1", "3", "4", "5", "1.5"} -> Done(Finite(NumberValue(c)))
      [] c = "nan" -> Done(NaN)
      [] OTHER -> Raised("ValueError")

\* total_weeks += weeks
AddWeeks(total_weeks, weeks) ==
    IF total_weeks.nan \/ weeks.nan THEN NaN
    ELSE Finite(RAdd(total_weeks.value, weeks.value))

\* The body of the loop for one duration: an int, a float or a bool is
\* added, a string is added when float() reads it, anything else is passed
\* over.
Counted(total_weeks, weeks) ==
    IF weeks.t = "num" THEN AddWeeks(total_weeks, Finite(NumberValue(weeks.s)))
    ELSE IF weeks.t = "lit" /\ weeks.s # "null"
    THEN AddWeeks(total_weeks,
                  Finite(IF weeks.s = "true" THEN ROne ELSE RZero))
    ELSE IF weeks.t = "str"
    THEN IF ToFloat(weeks.s).raised THEN total_weeks
         ELSE AddWeeks(total_weeks, ToFloat(weeks.s).result)
    ELSE total_weeks

\* int(total_weeks) for a total that is not negative.
ToInt(total_weeks) ==
    IF total_weeks.nan THEN Raised("ValueError")
    ELSE Done(total_weeks.value.n \div total_weeks.value.d)

RECURSIVE TotalFrom(_, _, _)
\* The loop over phases from index i on.
TotalFrom(phases, i, total_weeks) ==
    IF i > Len(phases) THEN ToInt(total_weeks)
    ELSE IF ~IsDict(phases[i]) THEN Raised("AttributeError")
    ELSE TotalFrom(phases, i + 1,
                   Counted(total_weeks,
                           Get(phases[i], "dauer_wochen", VNum("0"))))

\* _calculate_total_duration(phases): a string is walked by character and a
\* character has no get; a number and a literal cannot be walked.
_calculate_total_duration(phases) ==
    IF IsList(phases) THEN TotalFrom(phases.items, 1, Finite(RZero))
    ELSE IF IsDict(phases) \/ IsVStr(phases)
    THEN IF (IsDict(phases) /\ phases.items = <<>>)
              \/ (IsVStr(phases) /\ phases.s = "")
         THEN Done(0)
         ELSE Raised("AttributeError")
    ELSE Raised("TypeError")

\* The record of a roadmap that went through.
RoadmapRecord(parsed_data, full_analysis, total) ==
    [analysis_id |-> full_analysis.id,
     project_phases |-> Get(parsed_data, "projektphasen", VList(<<>>)),
     resources |-> Get(parsed_data, "ressourcen", VDict(<<>>)),
     timeline |-> Get(parsed_data, "timeline", VDict(<<>>)),
     success_criteria |-> Get(parsed_data, "erfolgskriterien", VList(<<>>)),
     total_duration_weeks |-> total,
     confidence |-> full_analysis.confidence_score,
     full_analysis |-> full_analysis]

\* The record of the `except Exception` clause.
RoadmapFailure(message) == [error |-> message, confidence |-> RZero]

\* A caller invokes generate_implementation_roadmap(company_profile,
\* use_case).
Roadmap ==
    /\ method = ""
    /\ method' = "generate_implementation_roadmap"
    /\ e_pc = "idle"
    /\ p_pc = "idle"
    /\ \E case \in UseCases :
          StartAnalyze("implementation_plan", ListedProfile, case)
    /\ q_pc' = "analysing"
    /\ UNCHANGED <<use_cases, visited, outcomes, collected, q_ret, c_pc, c_ret>>

\* analyze_use_case has returned: the call of parse_response on its
\* raw_response.
RoadmapReparse ==
    /\ q_pc = "analysing"
    /\ template_name = "implementation_plan"
    /\ e_pc = "returned"
    /\ StartReparse("implementation_json")
    /\ q_pc' = "reparsing"
    /\ UNCHANGED <<evars, sent, lvars, gvars>>
    /\ UNCHANGED <<method, use_cases, visited, outcomes, collected, q_ret, c_pc,
                   c_ret>>

\* The return of generate_implementation_roadmap: the roadmap, or the record
\* of the failure when analyze_use_case, parse_response or the sum raised.
RoadmapDone ==
    /\ template_name = "implementation_plan"
    /\ \/ /\ q_pc = "analysing"
          /\ e_pc = "raised"
          /\ q_ret' = RoadmapFailure(Str(exc))
       \/ /\ q_pc = "reparsing"
          /\ p_pc = "raised"
          /\ q_ret' = RoadmapFailure("Leere Response erhalten")
       \/ /\ q_pc = "reparsing"
          /\ p_pc = "returned"
          /\ \E total \in {_calculate_total_duration(
                             Get(ret, "projektphasen", VList(<<>>)))} :
                q_ret' = IF total.raised THEN RoadmapFailure(total.exc)
                         ELSE RoadmapRecord(ret, analysis, total.result)
    /\ q_pc' = "returned"
    /\ UNCHANGED <<pvars, evars, sent, lvars, gvars>>
    /\ UNCHANGED <<method, use_cases, visited, outcomes, collected, c_pc, c_ret>>

(***************************************************************************)
(* compare_use_cases (src/analysis_engine.py)                              *)
(***************************************************************************)
\* Largest number of use cases handed to a method that loops over them.
MaxCases == 2

\* The use cases of such a list: one with a description, one without, and
\* one whose description is a number.
ListedUseCases ==
    {VDict(OptionalField("beschreibung", beschreibung)) :
        beschreibung \in {VStr("X"), Absent, VNum("5")}}

UseCaseLists == UNION {[1..n -> ListedUseCases] : n \in 0..MaxCases}

\* The first n characters of a string, c[:n].
Prefix(c, n) == IF Len(c) <= n THEN c ELSE SubSeq(c, 1, n)

\* `use_case.get("beschreibung", f"Use Case {i+1}")[:50]`; a value that
\* cannot be sliced stands for the TypeError.
Title(case, i) ==
    IF ~HasKey(case, "beschreibung")
    THEN Done(Prefix("Use Case " \o ToString(i + 1), 50))
    ELSE IF IsVStr(GetKey(case, "beschreibung"))
    THEN Done(Prefix(GetKey(case, "beschreibung").s, 50))
    ELSE IF IsList(GetKey(case, "beschreibung"))
    THEN Done(GetKey(case, "beschreibung"))
    ELSE Raised("TypeError")

\* result["use_case_index"] = i and result["use_case_title"] = title
WithUseCase(result, i, title) ==
    [key \in DOMAIN result \cup {"use_case_index", "use_case_title"} |->
        IF key = "use_case_index" THEN i
        ELSE IF key = "use_case_title" THEN title
        ELSE result[key]]

\* effort_mapping.get(effort_str.lower(), 2.5)
_effort_to_score(effort_str) ==
    CASE Lower(effort_str) = "gering" -> Rat(4, 1)
      [] Lower(effort_str) = "mittel" -> Rat(3, 1)
      [] Lower(effort_str) = "hoch" -> Rat(2, 1)
      [] Lower(effort_str) = "sehr hoch" -> Rat(1, 1)
      [] OTHER -> Rat(5, 2)

\* x.get("effort", "hoch")
EffortOf(x) == IF "effort" \in DOMAIN x THEN x.effort ELSE VStr("hoch")

\* The key of the ranking raises AttributeError for an effort that has no
\* lower().
KeyRaises(x) == ~IsVStr(EffortOf(x))

\* (feasible, confidence, effort score); the confidences are compared as
\* exact fractions.
SortKey(x) ==
    <<IF x.feasible THEN 1 ELSE 0, x.confidence,
      _effort_to_score(EffortOf(x).s)>>

\* Tuple comparison a > b.
KeyGt(a, b) ==
    \/ a[1] > b[1]
    \/ a[1] = b[1] /\ RGt(a[2], b[2])
    \/ a[1] = b[1] /\ a[2] = b[2] /\ RGt(a[3], b[3])

\* sorted(..., reverse=True): descending, equal keys in their given order.
RECURSIVE Ranked(_)
Ranked(feasibility_results) ==
    IF feasibility_results = <<>> THEN <<>>
    ELSE LET last == feasibility_results[Len(feasibility_results)]
             before == Ranked(SubSeq(feasibility_results, 1,
                                     Len(feasibility_results) - 1))
             ahead == {i \in 1..Len(before) :
                         ~KeyGt(SortKey(last), SortKey(before[i]))}
         IN  SubSeq(before, 1, Cardinality(ahead)) \o <<last>>
               \o SubSeq(before, Cardinality(ahead) + 1, Len(before))

\* len([r for r in feasibility_results if r.get("feasible", False)])
FeasibleCount(feasibility_results) ==
    Cardinality({i \in 1..Len(feasibility_results) :
                    feasibility_results[i].feasible})

\* The numbers _generate_comparison_summary writes into its sentence.
ComparisonSummary(ranked_results) ==
    [total_count |-> Len(ranked_results),
     feasible_count |-> FeasibleCount(ranked_results)]

\* What compare_use_cases returns.
Comparison(feasibility_results, ranked_results) ==
    [total_use_cases |-> Len(feasibility_results),
     feasible_count |-> FeasibleCount(feasibility_results),
     ranked_results |-> ranked_results,
     recommendation |-> ranked_results[1],
     comparison_summary |-> ComparisonSummary(ranked_results)]

\* The engine and its parser keep what the last call left.
KeepEngine == UNCHANGED <<pvars, evars, sent, lvars, gvars>>

\* A caller invokes compare_use_cases(company_profile, use_cases): fewer
\* than two use cases raise, otherwise the first check starts.
Compare ==
    /\ method = ""
    /\ method' = "compare_use_cases"
    /\ e_pc = "idle"
    /\ p_pc = "idle"
    /\ \E cases \in UseCaseLists :
          /\ use_cases' = cases
          /\ IF Len(cases) < 2
             THEN /\ c_pc' = "raised"
                  /\ c_ret' = Raised("AnalysisEngineError")
                  /\ KeepEngine
                  /\ UNCHANGED <<visited, q_pc>>
             ELSE /\ c_pc' = "probing"
                  /\ StartAnalyze("quick_feasibility", ListedProfile, cases[1])
                  /\ visited' = <<1>>
                  /\ q_pc' = "analysing"
                  /\ UNCHANGED c_ret
    /\ UNCHANGED <<collected, q_ret, outcomes>>

\* The end of compare_use_cases after the loop: the ranking and the
\* result, or the AttributeError of the sort key.
Rank(feasibility_results) ==
    IF \E i \in 1..Len(feasibility_results) :
          KeyRaises(feasibility_results[i])
    THEN Raised("AttributeError")
    ELSE Done(Comparison(feasibility_results, Ranked(feasibility_results)))

\* quick_feasibility_check has returned to the loop of compare_use_cases:
\* the result is kept with its index and title, and the next check starts
\* or the method ends.
CompareProbed ==
    /\ c_pc = "probing"
    /\ q_pc = "returned"
    /\ \E title \in {Title(use_case, Len(collected))} :
          IF title.raised
          THEN /\ c_pc' = "raised"
               /\ c_ret' = title
               /\ KeepEngine
               /\ UNCHANGED <<collected, visited, q_pc>>
          ELSE /\ collected' = Append(collected,
                                      WithUseCase(q_ret, Len(collected),
                                                  title.result))
               /\ IF Len(collected') < Len(use_cases)
                  THEN /\ StartAnalyze("quick_feasibility", company_profile,
                                       use_cases[Len(collected') + 1])
                       /\ visited' = Append(visited, Len(collected') + 1)
                       /\ q_pc' = "analysing"
                       /\ UNCHANGED <<c_pc, c_ret>>
                  ELSE /\ c_ret' = Rank(collected')
                       /\ c_pc' = IF c_ret'.raised THEN "raised"
                                  ELSE "returned"
                       /\ KeepEngine
                       /\ UNCHANGED <<visited, q_pc>>
    /\ UNCHANGED <<method, use_cases, q_ret, outcomes>>

(***************************************************************************)
(* analyze_multiple_scenarios (src/analysis_engine.py)                     *)
(***************************************************************************)
\* The use cases of a batch: two that differ in their description, one
\* without a description, and one whose description is a number.
BatchUseCases ==
    {VDict(OptionalField("beschreibung", beschreibung)) :
        beschreibung \in {VStr("X"), VStr("Y"), Absent, VNum("5")}}

Batches == UNION {[1..n -> BatchUseCases] : n \in 0..MaxCases}

\* Variant of the loop that leaves at the first use case that failed; C18's
\* property has to tell it from the original.
StopsAfterFailure(cases, ended, failed) == ended < Len(cases) /\ ~failed

\* Another turn of `for i, use_case in enumerate(use_cases)` follows the
\* use case that has just been dealt with, failed or not.
HasNext(cases, ended, failed) == ended < Len(cases)

\* A caller invokes analyze_multiple_scenarios(company_profile, use_cases,
\* template_name).
AnalyzeMultiple ==
    /\ method = ""
    /\ method' = "analyze_multiple_scenarios"
    /\ e_pc = "idle"
    /\ p_pc = "idle"
    /\ \E cases \in Batches, name \in {"use_case_analysis", "unbekannt"} :
          /\ use_cases' = cases
          /\ IF cases = <<>>
             THEN /\ c_pc' = "returned"
                  /\ c_ret' = Done(<<>>)
                  /\ KeepEngine
                  /\ UNCHANGED visited
             ELSE /\ c_pc' = "analysing"
                  /\ StartAnalyze(name, ListedProfile, cases[1])
                  /\ visited' = <<1>>
                  /\ UNCHANGED c_ret
    /\ UNCHANGED <<outcomes, collected, q_pc, q_ret>>

\* analyze_use_case has returned or raised inside the loop: the analysis is
\* appended or the failure passed over, and the next use case is analysed
\* or the analyses are returned.
MultipleAnalysed ==
    /\ c_pc = "analysing"
    /\ e_pc \in {"returned", "raised"}
    /\ outcomes' = Append(outcomes, e_pc)
    /\ collected' = IF e_pc = "returned" THEN Append(collected, analysis)
                    ELSE collected
    /\ IF HasNext(use_cases, Len(visited), e_pc = "raised")
       THEN /\ StartAnalyze(template_name, company_profile,
                            use_cases[Len(visited) + 1])
            /\ visited' = Append(visited, Len(visited) + 1)
            /\ UNCHANGED <<c_pc, c_ret>>
       ELSE /\ c_ret' = Done(collected')
            /\ c_pc' = "returned"
            /\ KeepEngine
            /\ UNCHANGED visited
    /\ UNCHANGED <<method, use_cases, q_pc, q_ret>>

(***************************************************************************)
(* _calculate_confidence_score called on its own                           *)
(***************************************************************************)
\* A list of n recommendations.
Recommendations(n) == VList([i \in 1..n |-> VStr("x")])

\* Parsed data: nothing, one to three of the fields of a full analysis with
\* none to five recommendations, a text or a number for a list.
ScoredData ==
    {EmptyDict}
      \cup {VDict(SubSeq(<<KV("zusammenfassung", VStr("x")),
                          KV("handlungsschritte", Recommendations(n)),
                          KV("technische_loesungen", Recommendations(m))>>,
                        1, k)) :
              n \in {0, 1, 3}, m \in {0, 2}, k \in 1..3}
      \cup {VDict(<<KV("naechste_schritte", v)>>) :
              v \in {VStr("abc"), VNum("5")}}

\* Response texts on both sides of every length tier.
ScoredTexts == {<<W(Filler(n))>> : n \in {1, 500, 501, 1000, 1001, 2000, 2001}}

ScoreCall ==
    /\ method = ""
    /\ method' = "_calculate_confidence_score"
    /\ e_pc = "idle"
    /\ p_pc = "idle"
    /\ \E parsed_data \in ScoredData, response_text \in ScoredTexts,
          name \in TemplateNames :
          /\ parsed_response' = parsed_data
          /\ raw_response' = response_text
          /\ template_name' = name
          /\ c_ret' = _calculate_confidence_score(parsed_data, response_text,
                                                  name)
    /\ c_pc' = IF c_ret'.raised THEN "raised" ELSE "returned"
    /\ UNCHANGED <<e_pc, company_profile, use_case, stages, calls, attempt,
                   last_error, waits, messages, api_response, analysis, exc>>
    /\ UNCHANGED <<expected_format, fmt, p_pc, strategy, ran, results, errors,
                   best_result, ret>>
    /\ UNCHANGED <<use_cases, visited, outcomes, collected, q_pc, q_ret, sent, lvars, gvars>>

(***************************************************************************)
(* validate_template_data and format_prompt called on their own            *)
(* (src/promt_templates.py)                                                *)
(***************************************************************************)
\* A caller invokes validate_template_data(template_name, company_profile,
\* use_case) or format_prompt(template_name, company_profile, use_case).
PromptCall(invoked) ==
    /\ method = ""
    /\ method' = invoked
    /\ e_pc = "idle"
    /\ p_pc = "idle"
    /\ \E name \in {"use_case_analysis", "unbekannt"},
          profile \in CompanyProfiles, case \in UseCases :
          /\ template_name' = name
          /\ company_profile' = profile
          /\ use_case' = case
          /\ c_ret' = IF invoked = "format_prompt"
                      THEN format_prompt(name, profile, case)
                      ELSE validate_template_data(name, profile, case)
    /\ c_pc' = IF c_ret'.raised THEN "raised" ELSE "returned"
    /\ UNCHANGED <<e_pc, stages, calls, attempt, last_error, waits, messages,
                   api_response, parsed_response, analysis, exc>>
    /\ UNCHANGED pvars
    /\ UNCHANGED <<use_cases, visited, outcomes, collected, q_pc, q_ret, sent,
                   lvars, gvars>>

ValidateCall == PromptCall("validate_template_data")

FormatCall == PromptCall("format_prompt")

(***************************************************************************)
(* check_connection (src/lm_studio_client.py)                              *)
(***************************************************************************)
\* LMStudioConfig.model_name
DefaultModel == "qwen2.5-7b-instruct"

\* The client after construction.
ClientConfigured ==
    /\ model_name = DefaultModel
    /\ params = ""
    /\ check = NoValue

UpperCase == "ABCDEFGHIJKLMNOPQRSTUVWXYZ"
LowerCase == "abcdefghijklmnopqrstuvwxyz"

\* str.lower() character by character (ASCII).
LowerChar(ch) ==
    IF \E i \in 1..Len(UpperCase) : SubSeq(UpperCase, i, i) = ch
    THEN LET i == CHOOSE i \in 1..Len(UpperCase) : SubSeq(UpperCase, i, i) = ch
         IN  SubSeq(LowerCase, i, i)
    ELSE ch

RECURSIVE StrLower(_)
StrLower(c) ==
    IF c = "" THEN ""
    ELSE LowerChar(SubSeq(c, 1, 1))
           \o (IF Len(c) = 1 THEN "" ELSE StrLower(SubSeq(c, 2, Len(c))))

\* `a in b` on strings.
IsSubstring(a, b) ==
    \/ a = ""
    \/ \E i \in 1..Len(b) :
          /\ i + Len(a) - 1 <= Len(b)
          /\ SubSeq(b, i, i + Len(a) - 1) = a

\* Variant of the availability test that looks for the very name; C23's
\* property has to tell it from the original.
ListedExactly(name, available_models) ==
    \E i \in 1..Len(available_models) : available_models[i] = name

\* `any(self.config.model_name.lower() in model.lower() for model in
\* available_models)`
ModelAvailable(name, available_models) ==
    \E i \in 1..Len(available_models) :
        IsSubstring(StrLower(name), StrLower(available_models[i]))

\* The identifiers a listing returns; "" is what an entry without id
\* counts for.
ModelIds == {DefaultModel, "Qwen2.5-7B-Instruct-GGUF", "llama-3", ""}

\* Largest number of entries of a listing.
MaxModels == 2

Listings == UNION {[1..n -> ModelIds] : n \in 0..MaxModels}

\* An answer to GET /v1/models: a listing, a 200 answer whose body is no
\* object or no JSON, a status other than 200, or no answer.
ListingAnswer(kind, body, ids) == [kind |-> kind, body |-> body, ids |-> ids]

ListingAnswers ==
    {ListingAnswer("ok", "object", ids) : ids \in Listings}
      \cup {ListingAnswer("ok", body, <<>>) : body \in BadBodies}
      \cup {ListingAnswer(failure, "none", <<>>) :
              failure \in TransientFailures}

\* The answers to a check made while a batch is analysed: a listing
\* without the configured model, or a failure.
RecheckAnswers ==
    {ListingAnswer("ok", "object", <<"llama-3">>),
     ListingAnswer("http_error", "none", <<>>)}

\* The answers to check_connection the model runs on, by the method the
\* caller invoked.
CheckAnswers(invoked) ==
    IF invoked = "analyze_multiple_scenarios" THEN RecheckAnswers
    ELSE ListingAnswers

\* The configured name after the check and what the check returned or
\* raised.
Checked(name, result) == [name |-> name, result |-> result]

\* check_connection on the configured name and the answer; error is what
\* response.json() raises on a body that is no JSON.
check_connection(name, answer, error) ==
    IF answer.kind # "ok" THEN Checked(name, "False")
    ELSE IF answer.body = "array" THEN Checked(name, "AttributeError")
    ELSE IF answer.body = "text"
    THEN IF error = "RequestException" THEN Checked(name, "False")
         ELSE Checked(name, "ValueError")
    ELSE IF ~ModelAvailable(name, answer.ids) /\ answer.ids # <<>>
    THEN Checked(answer.ids[1], "True")
    ELSE Checked(name, "True")

\* A call of check_connection: by a caller of its own before any other
\* call, or once by another thread while a generate_completion call of
\* analyze_multiple_scenarios is between two attempts.
CheckConnection ==
    /\ \/ /\ method \in {"", "check_connection"}
          /\ e_pc = "idle"
          /\ p_pc = "idle"
          /\ method' = "check_connection"
       \/ /\ method = "analyze_multiple_scenarios"
          /\ e_pc = "attempt"
          /\ attempt > 0
          /\ check = NoValue
          /\ UNCHANGED method
    /\ \E answer \in CheckAnswers(method), error \in DecodeErrors :
          \E checked \in {check_connection(model_name, answer, error)} :
             /\ model_name' = checked.name
             /\ check' = [before |-> model_name, answer |-> answer,
                          result |-> checked.result]
    /\ UNCHANGED params
    /\ UNCHANGED <<pvars, evars, sent, gvars>>
    /\ UNCHANGED <<use_cases, visited, outcomes, collected, q_pc, q_ret, c_pc,
                   c_ret>>

(***************************************************************************)
(* Calls of the parser and of the engine                                   *)
(***************************************************************************)
(***************************************************************************)
(* The main window and its workspace (src/main_window.py,                  *)
(* src/workspace.py)                                                       *)
(***************************************************************************)
\* What a required field of a form can hold.
FieldTexts == {"", " ", "x"}

Entries(first, second) == [first |-> first, second |-> second]

\* The entries of a form built without data.
EmptyForm == Entries("", "")

\* Workspace.__init__ and setup_workspace, which ends in show_welcome.
WindowCreated ==
    /\ window = "open"
    /\ current_document_type = ""
    /\ has_changes = FALSE
    /\ form_entries = EmptyForm
    /\ event = NoValue

\* `not data.get(field, '').strip()`
IsBlank(text) == text \in {"", " "}

\* _validate_document_data: verantwortlich and beschreibung of a use case,
\* unternehmensname and branche of a company profile.
ValidateDocumentData(entries) ==
    ~IsBlank(entries.first) /\ ~IsBlank(entries.second)

\* MainWindow.save_document: True when the document manager stored the
\* document, False when anything in it raised.
StorageOutcomes == {"saved", "OSError"}

\* Variant of the save that does not validate the data; C30's property has
\* to tell it from the original.
SaveUnvalidated(type, entries, storage) ==
    type # "" /\ storage = "saved"

\* The value save_current_document returns.
SaveSucceeds(type, entries, storage) ==
    /\ type # ""
    /\ ValidateDocumentData(entries)
    /\ storage = "saved"

\* The documents a user can open: of both types, with and without their
\* required fields, and of a type the application does not know.
Documents ==
    {[type |-> type, first |-> first, second |-> second] :
        type \in {"use_case", "company_profile"},
        first \in {"", "x"}, second \in {"", "x"}}
      \cup {[type |-> "x", first |-> "x", second |-> "x"]}

Event(handler, response, storage) ==
    [handler |-> handler, response |-> response, storage |-> storage]

\* A handler of the window runs: the window is still there, and no call of
\* the analysis layer is under way.
GuiReady ==
    /\ window = "open"
    /\ method \in {"", "gui"}
    /\ e_pc = "idle"
    /\ p_pc = "idle"
    /\ method' = "gui"
    /\ UNCHANGED <<pvars, evars, sent, lvars>>
    /\ UNCHANGED <<use_cases, visited, outcomes, collected, q_pc, q_ret, c_pc,
                   c_ret>>

\* show_welcome: the button Abbrechen, the Escape key.
ShowWelcome ==
    /\ GuiReady
    /\ current_document_type' = ""
    /\ has_changes' = FALSE
    /\ event' = Event("show_welcome", "", "")
    /\ UNCHANGED <<window, form_entries>>

\* show_use_case_form() and show_company_profile_form() without data: a new
\* document.
NewForm ==
    /\ GuiReady
    /\ \E type \in {"use_case", "company_profile"} :
          current_document_type' = type
    /\ has_changes' = FALSE
    /\ form_entries' = EmptyForm
    /\ event' = Event("show_form", "", "")
    /\ UNCHANGED window

\* MainWindow.load_document: the document manager raises, or the document
\* is of an unknown type, or its form is built and filled.
LoadDocument ==
    /\ GuiReady
    /\ \/ /\ event' = Event("load_document", "", "OSError")
          /\ UNCHANGED <<current_document_type, has_changes, form_entries>>
       \/ \E document \in Documents :
             /\ event' = Event("load_document", "", document.type)
             /\ IF document.type \in {"use_case", "company_profile"}
                THEN /\ current_document_type' = document.type
                     /\ has_changes' = FALSE
                     /\ form_entries' = Entries(document.first, document.second)
                ELSE UNCHANGED <<current_document_type, has_changes,
                                 form_entries>>
    /\ UNCHANGED window

\* _on_form_change: a key released in a field of the form shown, a choice
\* made, a box ticked, a scale moved; the field may hold what it held.
FormChange ==
    /\ GuiReady
    /\ current_document_type # ""
    /\ \E first \in FieldTexts, second \in FieldTexts :
          /\ first = form_entries.first \/ second = form_entries.second
          /\ form_entries' = Entries(first, second)
    /\ has_changes' = TRUE
    /\ event' = Event("_on_form_change", "", "")
    /\ UNCHANGED <<window, current_document_type>>

\* save_current_document from the button or from Ctrl+S.
SaveCurrentDocument ==
    /\ GuiReady
    /\ \E storage \in StorageOutcomes :
          /\ has_changes' =
                IF SaveSucceeds(current_document_type, form_entries, storage)
                THEN FALSE
                ELSE has_changes
          /\ event' = Event("save_current_document", "", storage)
    /\ UNCHANGED <<window, current_document_type, form_entries>>

\* The answers to askyesnocancel: True, False, None.
DialogAnswers == {"yes", "no", "cancel"}

\* on_closing: the dialog is shown when there are unsaved changes; the
\* window is destroyed unless the user cancels or the save fails.
OnClosing ==
    /\ GuiReady
    /\ \E response \in IF has_changes THEN DialogAnswers ELSE {""} :
       \E storage \in IF response = "yes" THEN StorageOutcomes ELSE {""} :
       \E saved \in {response = "yes"
                       /\ SaveSucceeds(current_document_type, form_entries,
                                       storage)} :
          /\ window' = IF response = "cancel" \/ (response = "yes" /\ ~saved)
                       THEN "open"
                       ELSE "destroyed"
          /\ has_changes' = IF saved THEN FALSE ELSE has_changes
          /\ event' = Event("on_closing", response, storage)
    /\ UNCHANGED <<current_document_type, form_entries>>

vars == <<pvars, evars, sent, cvars, lvars, gvars>>

Init ==
    /\ p_pc = "idle"
    /\ raw_response = <<>>
    /\ expected_format = ""
    /\ ParserIdle
    /\ EngineIdle
    /\ sent = <<>>
    /\ CallerIdle
    /\ ClientConfigured
    /\ WindowCreated

Next ==
    \/ ParseCall
    \/ ParseEnter
    \/ TryStrategy
    \/ Analyze
    \/ Validate
    \/ BuildPrompt
    \/ CallModel
    \/ Attempt
    \/ ExtractText
    \/ Parse
    \/ ParseReturn
    \/ Populate
    \/ Score
    \/ ScoreCall
    \/ QuickCheck
    \/ QuickReparse
    \/ QuickDone
    \/ Roadmap
    \/ RoadmapReparse
    \/ RoadmapDone
    \/ Compare
    \/ CompareProbed
    \/ AnalyzeMultiple
    \/ MultipleAnalysed
    \/ CheckConnection
    \/ ValidateCall
    \/ FormatCall
    \/ ShowWelcome
    \/ NewForm
    \/ LoadDocument
    \/ FormChange
    \/ SaveCurrentDocument
    \/ OnClosing

Spec == Init /\ [][Next]_vars

(***************************************************************************)
(* Properties of parse_response                                            *)
(***************************************************************************)
\* A text of whitespace only (the empty text included).
WhitespaceOnly(text) == \A i \in 1..Len(text) : text[i].k = "ws"

\* C1: parse_response raises the empty-response error exactly when
\* raw_response is empty or whitespace-only, and then no strategy has run;
\* for every other raw_response and every expected_format it does not raise
\* and what it returns is a dictionary.
C1_EmptyResponse ==
    /\ p_pc = "raised" => WhitespaceOnly(raw_response) /\ ran = <<>>
    /\ p_pc \in {"loop", "returned"} => ~WhitespaceOnly(raw_response)
    /\ p_pc = "returned" => IsDict(ret)

\* A response of blanks only has been refused.
C1_Witness == p_pc = "raised" /\ raw_response # <<>>

StrategyOrder ==
    <<"_parse_clean_json", "_parse_markdown_json", "_parse_mixed_content",
      "_parse_fallback_text">>

\* The format_detected values each strategy can put on its result.
StrategyTags ==
    <<{"clean_json", "none"}, {"markdown_json", "none"},
      {"mixed_content", "structured_text"}, {"fallback_text"}>>

\* The i-th strategy run returned a result with success set.
Succeeded(i) == ~results[i].raised /\ results[i].result.success

\* C2: the strategies run in the fixed order direct parse, fenced block,
\* embedded object, heuristic text, and the data of the first one whose
\* result is valid (its success flag) is returned at once: a successful
\* result is always the last one run and its data is what was returned.
C2_FirstValidWins ==
    /\ Len(ran) <= Len(StrategyOrder)
    /\ ran = SubSeq(StrategyOrder, 1, Len(ran))
    /\ Len(results) = Len(ran)
    /\ \A i \in 1..Len(results) :
          /\ ~results[i].raised =>
                results[i].result.format_detected \in StrategyTags[i]
          /\ Succeeded(i) =>
                /\ i = Len(results)
                /\ p_pc = "returned"
                /\ ret = results[i].result.data

\* The fenced block won after the direct parse had failed.
C2_Witness ==
    /\ p_pc = "returned"
    /\ Len(ran) = 2
    /\ Succeeded(2)
    /\ results[2].result.format_detected = "markdown_json"

\* A result that passed the structure validation: success with a
\* confidence above 0.5 (the heuristic extractions never get there).
StructurallyValid(i) ==
    Succeeded(i) /\ RGt(results[i].result.confidence, Rat(1, 2))

\* The results that carry data, and the one of them with the highest
\* confidence (the earliest such).
WithData ==
    {i \in 1..Len(results) :
        ~results[i].raised /\ Truthy(results[i].result.data)}

HighestConfidence ==
    CHOOSE i \in WithData :
        \A j \in WithData :
            \/ RGt(results[i].result.confidence, results[j].result.confidence)
            \/ /\ results[i].result.confidence = results[j].result.confidence
               /\ i <= j

\* C3 as stated: when no strategy yielded a structurally valid result,
\* parse_response returns the data of the result with the highest
\* confidence among those that produced data (a decoded object that scored
\* at most 0.5 rather than the free-text extraction at 0.3).
C3_BestByConfidence ==
    (/\ p_pc = "returned"
     /\ \A i \in 1..Len(results) : ~StructurallyValid(i)
     /\ WithData # {})
        => ret = results[HighestConfidence].result.data

\* json.loads of the whole response.
DirectDecode == JsonLoads(Strip(raw_response))

\* parse_response has returned for a JSON object text with all seven
\* fields of the full analysis, the format being structured_json.
C4_Case ==
    /\ p_pc = "returned"
    /\ expected_format = "structured_json"
    /\ DirectDecode.ok
    /\ IsDict(DirectDecode.val)
    /\ \A i \in 1..7 :
          HasKey(DirectDecode.val, ExpectedFields("structured_json")[i])

FencedContent(text) ==
    IF /\ Len(text) > 9
       /\ SubSeq(text, 1, 5) = <<W("Text"), NL, FENCE, W("json"), NL>>
       /\ SubSeq(text, Len(text) - 3, Len(text))
             = <<NL, FENCE, NL, W("Ende")>>
    THEN SubSeq(text, 6, Len(text) - 4)
    ELSE <<>>

\* C5 as stated: when the fenced content alone is a valid object matching
\* the schema of the format, parse_response of the whole text returns the same object as
\* parsing the content alone.
C5_FencedSameAsAlone ==
    (/\ p_pc = "returned"
     /\ ExpectedFields(fmt) # <<>>
     /\ FencedContent(raw_response) # <<>>
     /\ ~ParseCleanJson(FencedContent(raw_response), fmt).raised
     /\ ParseCleanJson(FencedContent(raw_response), fmt).result.success)
        => ret = ParseCleanJson(FencedContent(raw_response), fmt).result.data

\* C6 as stated: for a text with two balanced spans of which only the
\* second is valid for the format, parse_response returns the data of the
\* second span.
C6_SecondSpan ==
    \A first \in FirstSpans, second \in CompleteQuickObjects,
       sep \in {Compact, Spaced} :
        (/\ p_pc = "returned"
         /\ expected_format = "quick_json"
         /\ raw_response = TwoSpans(Render(first, sep), Render(second, sep)))
            => ret = second

\* C7 as stated, on the candidate of strategy 1 (the decode of the whole
\* response): for every format with a field list _validate_structure
\* computes present/required times the quality factor of the format and
\* reports valid exactly when that is above 0.5 and some field is there;
\* what is no dictionary is invalid with confidence 0.
C7_ValidateStructure ==
    (/\ Len(results) >= 1
     /\ ExpectedFields(fmt) # <<>>
     /\ DirectDecode.ok)
        => /\ ~results[1].raised
           /\ IF IsDict(DirectDecode.val)
              THEN /\ results[1].result.confidence =
                         RMul(Rat(CountPresent(ExpectedFields(fmt),
                                               DirectDecode.val),
                                  Len(ExpectedFields(fmt))),
                              IF fmt = "structured_json"
                              THEN ValidateAnalysisStructure(DirectDecode.val)
                              ELSE IF fmt = "quick_json"
                              THEN ValidateFeasibilityStructure(DirectDecode.val)
                              ELSE ROne)
                   /\ results[1].result.success <=>
                         /\ RGt(results[1].result.confidence, Rat(1, 2))
                         /\ CountPresent(ExpectedFields(fmt),
                                         DirectDecode.val) > 0
              ELSE /\ ~results[1].result.success
                   /\ results[1].result.confidence = RZero

InUnit(c) == RGe(c, RZero) /\ RGe(ROne, c)

\* C8: every confidence lies in [0, 1]: that of every ParseResult a
\* strategy returned, that of the best partial result, and the
\* confidence_score of the analysis analyze_use_case returns.
C8_ConfidenceRange ==
    /\ \A i \in 1..Len(results) :
          ~results[i].raised => InUnit(results[i].result.confidence)
    /\ best_result # NoResult => InUnit(best_result.confidence)
    /\ e_pc = "returned" => InUnit(analysis.confidence_score)

\* An analysis was returned for a response whose quality factor with the
\* bonus for technische_loesungen reached the cap.
C8_Witness ==
    /\ e_pc = "returned"
    /\ ~results[1].raised
    /\ results[1].result.confidence = ROne
    /\ SolutionsBonus(parsed_response) = Rat(11, 10)

(***************************************************************************)
(* Properties of analyze_use_case                                          *)
(***************************************************************************)
\* A required field that is absent, empty or blank.
Blank(d, field) ==
    \/ ~HasKey(d, field)
    \/ /\ IsVStr(GetKey(d, field))
       /\ \A i \in 1..Len(GetKey(d, field).s) :
             SubSeq(GetKey(d, field).s, i, i) = " "

InvalidInput ==
    \/ template_name \notin {"use_case_analysis", "quick_feasibility",
                             "roi_analysis", "implementation_plan"}
    \/ Blank(company_profile, "unternehmensname")
    \/ Blank(company_profile, "branche")
    \/ Blank(use_case, "beschreibung")

\* C9: when the company name, the industry or the use-case description is
\* missing, or the template name is unknown, analyze_use_case fails in the
\* validation stage and generate_completion is never called.
C9_NoRequest ==
    (e_pc # "idle" /\ InvalidInput)
        => /\ calls = 0
           /\ e_pc \in {"validate", "raised"}
           /\ e_pc = "raised" => stages = <<"validate">>

\* The call failed for a blank industry under a known template.
C9_Witness ==
    /\ e_pc = "raised"
    /\ template_name = "use_case_analysis"
    /\ HasKey(company_profile, "branche")
    /\ Blank(company_profile, "branche")

StageOrder ==
    <<"validate", "build_prompt", "call_model", "extract_text", "parse",
      "populate", "score">>

\* C10: the stages run in the order validate, build prompt, call model,
\* extract text, parse, populate, score, each at most once and
\* generate_completion at most once; a call that failed has left as an
\* AnalysisEngineError and a call that returned has run every stage.
C10_Stages ==
    /\ Len(stages) <= Len(StageOrder)
    /\ stages = SubSeq(StageOrder, 1, Len(stages))
    /\ calls = IF Len(stages) >= 3 THEN 1 ELSE 0
    /\ e_pc = "raised" <=> exc # NoValue
    /\ e_pc = "raised" => exc.type = "AnalysisEngineError"
    /\ e_pc = "returned" => stages = StageOrder

\* The last stage failed with a TypeError, which left wrapped.
C10_Witness ==
    /\ e_pc = "raised"
    /\ stages = StageOrder
    /\ exc.cause = "TypeError"

(***************************************************************************)
(* Properties of the methods built on analyze_use_case                     *)
(***************************************************************************)
\* extract_response_text has returned a text that is not empty.
TextReturned ==
    /\ \E i \in 1..Len(stages) : stages[i] = "parse"
    /\ raw_response # <<>>

\* C11: once the model client has returned a non-empty response text,
\* analyze_use_case does not raise, whatever the text holds.
C11_NoRaiseAfterText == TextReturned => e_pc # "raised"

\* The signals of the confidence that can be computed for the data, the
\* text and the template name the score was asked for.
AvailableSignals ==
    (IF template_name \in DOMAIN templates
     THEN <<Rat(CountPresent(expected_fields(template_name), parsed_response),
                Len(expected_fields(template_name)))>>
     ELSE <<>>)
      \o <<LengthScore(Len(Flatten(raw_response))),
           StructureScore(parsed_response),
           DetailScore(TotalRecommendations(parsed_response,
                                            recommendation_fields))>>

\* _calculate_confidence_score has returned to a caller that called it on
\* its own.
ScoreCalled ==
    method = "_calculate_confidence_score" /\ c_pc = "returned"

\* The score is the unweighted mean of the available signals.
IsMeanOfSignals(score) ==
    IF AvailableSignals = <<>> THEN score = Rat(1, 2)
    ELSE RMul(score, Rat(Len(AvailableSignals), 1)) = RSum(AvailableSignals)

QuickReturned == template_name = "quick_feasibility" /\ q_pc = "returned"

\* The check failed: analyze_use_case or the second parse_response raised.
QuickFailed == QuickReturned /\ (e_pc = "raised" \/ p_pc = "raised")

\* C13: quick_feasibility_check never raises; when the validation, the
\* model client, the text extraction or the parsing failed it returns a
\* record of exactly feasible = false, confidence = 0.0 and a non-empty
\* error string.
C13_FailureRecord ==
    /\ q_pc \in {"idle", "analysing", "reparsing", "returned"}
    /\ (q_pc # "idle" /\ e_pc = "raised") =>
          exc.type = "AnalysisEngineError"
    /\ QuickFailed =>
          /\ DOMAIN q_ret = {"feasible", "confidence", "error"}
          /\ q_ret.feasible = FALSE
          /\ q_ret.confidence = RZero
          /\ q_ret.error # ""

\* A check whose model client gave up after the last attempt has returned
\* the failure record.
C13_Witness ==
    /\ QuickFailed
    /\ method = "quick_feasibility_check"
    /\ exc.cause = "LMStudioError"
    /\ Len(sent) = max_retries

\* The text of the clean-JSON case of the parser's own test.
CleanJsonCase ==
    <<LBrace, S("machbarkeit"), Colon, S("gut"), Comma,
      S("aufwand"), Colon, S("mittel"), Comma,
      S("empfehlung"), Colon, S("go"), RBrace>>

\* C14: quick_feasibility_check returns feasible = true exactly when the
\* response, parsed again against the quick-feasibility schema, has the
\* recommendation "go" in this very spelling; for the text
\* {"machbarkeit":"gut","aufwand":"mittel","empfehlung":"go"} it returns
\* feasible = true and effort = "mittel".
C14_FeasibleIffGo ==
    QuickReturned =>
        /\ q_ret.feasible <=>
              /\ ~QuickFailed
              /\ expected_format = "quick_json"
              /\ HasKey(ret, "empfehlung")
              /\ GetKey(ret, "empfehlung") = VStr("go")
        /\ (~QuickFailed /\ raw_response = CleanJsonCase) =>
              q_ret.feasible /\ q_ret.effort = VStr("mittel")

\* The check of the test's clean-JSON text has returned.
C14_Witness ==
    /\ QuickReturned
    /\ ~QuickFailed
    /\ raw_response = CleanJsonCase
    /\ q_ret.feasible

\* compare_use_cases has returned or raised.
CompareEnded ==
    method = "compare_use_cases" /\ c_pc \in {"returned", "raised"}

\* No use case of the list has a description that is not a string.
PlainUseCases ==
    \A i \in 1..Len(use_cases) :
        HasKey(use_cases[i], "beschreibung") =>
            IsVStr(GetKey(use_cases[i], "beschreibung"))

\* The effort scores as the ranking is specified: gering 4, mittel 3,
\* hoch 2, "sehr hoch" 1 and 2.5 for anything else.
SpecifiedScore(effort) ==
    IF effort = VStr("gering") THEN Rat(4, 1)
    ELSE IF effort = VStr("mittel") THEN Rat(3, 1)
    ELSE IF effort = VStr("hoch") THEN Rat(2, 1)
    ELSE IF effort = VStr("sehr hoch") THEN Rat(1, 1)
    ELSE Rat(5, 2)

\* (feasible, confidence, effort score) of a result, and the order on it.
SpecifiedKey(x) ==
    <<IF x.feasible THEN 1 ELSE 0, x.confidence,
      SpecifiedScore(EffortOf(x))>>

SpecifiedGe(a, b) ==
    \/ a[1] > b[1]
    \/ a[1] = b[1] /\ RGt(a[2], b[2])
    \/ a[1] = b[1] /\ a[2] = b[2] /\ RGe(a[3], b[3])

\* C15: with fewer than two use cases compare_use_cases fails with the
\* comparison error before any check runs; with two or more it returns
\* ranked_results in descending order of (feasible, confidence, effort
\* score), and its recommendation is the entry with the greatest tuple.
C15_Ranking ==
    (CompareEnded /\ PlainUseCases) =>
        IF Len(use_cases) < 2
        THEN /\ c_pc = "raised"
             /\ c_ret.exc = "AnalysisEngineError"
             /\ visited = <<>> /\ stages = <<>>
        ELSE /\ c_pc = "returned"
             /\ \A i, j \in 1..Len(c_ret.result.ranked_results) :
                   i < j =>
                     SpecifiedGe(SpecifiedKey(c_ret.result.ranked_results[i]),
                                 SpecifiedKey(c_ret.result.ranked_results[j]))
             /\ \A i \in 1..Len(collected) :
                   SpecifiedGe(SpecifiedKey(c_ret.result.recommendation),
                               SpecifiedKey(collected[i]))

\* C16: for two or more use cases compare_use_cases checks every use case
\* once, in input order, also after a check that failed; whatever the model
\* answered it returns, with one entry per use case in the ranking, a
\* failed check as an entry with feasible = false and confidence 0.0,
\* total_use_cases the number of entries and feasible_count the number of
\* feasible entries.
C16_OneEntryPerUseCase ==
    (method = "compare_use_cases" /\ PlainUseCases) =>
        /\ visited = [i \in 1..Len(visited) |-> i]
        /\ (CompareEnded /\ Len(use_cases) >= 2) =>
              /\ c_pc = "returned"
              /\ Len(visited) = Len(use_cases)
              /\ Len(c_ret.result.ranked_results) = Len(use_cases)
              /\ c_ret.result.total_use_cases
                   = Len(c_ret.result.ranked_results)
              /\ c_ret.result.feasible_count
                   = Cardinality(
                       {i \in 1..Len(c_ret.result.ranked_results) :
                           c_ret.result.ranked_results[i].feasible})
              /\ \A i \in 1..Len(c_ret.result.ranked_results) :
                    "error" \in DOMAIN c_ret.result.ranked_results[i] =>
                        /\ ~c_ret.result.ranked_results[i].feasible
                        /\ c_ret.result.ranked_results[i].confidence = RZero


\* generate_implementation_roadmap has returned after the re-parse went
\* through.
RoadmapParsed ==
    /\ method = "generate_implementation_roadmap"
    /\ q_pc = "returned"
    /\ p_pc = "returned"

\* The phase list of the re-parsed answer.
ReparsedPhases == Get(ret, "projektphasen", VList(<<>>))

\* The phase list is a list of objects.
PlainPhases ==
    /\ IsList(ReparsedPhases)
    /\ \A i \in 1..Len(ReparsedPhases.items) : IsDict(ReparsedPhases.items[i])

\* What a duration counts for: a number its value, a text that reads as a
\* number that number, anything else nothing.
SpecifiedWeeks(phase) ==
    IF ~HasKey(phase, "dauer_wochen") THEN RZero
    ELSE IF GetKey(phase, "dauer_wochen").t = "num"
    THEN NumberValue(GetKey(phase, "dauer_wochen").s)
    ELSE IF /\ GetKey(phase, "dauer_wochen").t = "str"
            /\ GetKey(phase, "dauer_wochen").s \in {"0", "1", "3", "4", "5", "1.5"}
    THEN NumberValue(GetKey(phase, "dauer_wochen").s)
    ELSE RZero

SpecifiedTotal(phases) ==
    RSum([i \in 1..Len(phases) |-> SpecifiedWeeks(phases[i])])

\* C17: a roadmap whose re-parsed answer has a list of phase objects carries
\* total_duration_weeks, and it is the sum of the durations that are numbers
\* or text that reads as a number; the other durations count for nothing
\* and cause no error.
C17_TotalDuration ==
    (RoadmapParsed /\ PlainPhases) =>
        /\ "total_duration_weeks" \in DOMAIN q_ret
        /\ Rat(q_ret.total_duration_weeks, 1)
             = SpecifiedTotal(ReparsedPhases.items)

\* The indices of the use cases whose analysis returned, in the order in
\* which the analyses ended.
SucceededCases ==
    SelectSeq([i \in 1..Len(outcomes) |-> i],
              LAMBDA i : outcomes[i] = "returned")

\* The description the analysis was asked about, from the user message of
\* its prompt.
DescriptionOf(a) == a.prompt_messages[2].use_case_description

\* C18: analyze_multiple_scenarios hands the use cases to analyze_use_case
\* in input order, one after the other; it never raises; the analyses it
\* has collected are those of the use cases that succeeded, in input order;
\* and it returns them only after every use case was analysed, the ones
\* that follow a failed one included.
C18_SucceedingInOrder ==
    method = "analyze_multiple_scenarios" =>
        /\ c_pc # "raised"
        /\ visited = [i \in 1..Len(visited) |-> i]
        /\ Len(collected) = Len(SucceededCases)
        /\ \A k \in 1..Len(collected) :
              DescriptionOf(collected[k])
                = GetKey(use_cases[SucceededCases[k]], "beschreibung")
        /\ c_pc = "returned" =>
              /\ Len(visited) = Len(use_cases)
              /\ Len(outcomes) = Len(use_cases)
              /\ c_ret = Done(collected)
              /\ Len(c_ret.result) <= Len(use_cases)

\* A batch of two valid use cases has returned: the first failed on the
\* model's answer, the second was still analysed and is the only result.
C18_Witness ==
    /\ method = "analyze_multiple_scenarios"
    /\ c_pc = "returned"
    /\ use_cases = <<VDict(<<KV("beschreibung", VStr("X"))>>),
                     VDict(<<KV("beschreibung", VStr("Y"))>>)>>
    /\ outcomes = <<"raised", "returned">>
    /\ Len(c_ret.result) = 1
    /\ DescriptionOf(c_ret.result[1]) = VStr("Y")

(***************************************************************************)
(* Properties of generate_completion                                       *)
(***************************************************************************)
\* The exception that ended the engine's call came out of
\* generate_completion.
ClientRaised ==
    /\ e_pc = "raised"
    /\ stages # <<>>
    /\ stages[Len(stages)] = "call_model"

\* C19: a call of generate_completion sends at most max_retries requests;
\* every request but the last one failed transiently (a timeout, a network
\* error or a status other than 200 and 422); and a 200 response is the
\* last request of the call, which has returned it.
C19_RetriesOnlyTransient ==
    /\ Len(sent) <= max_retries
    /\ \A i \in 1..Len(sent) - 1 : sent[i].kind \in TransientFailures
    /\ \A i \in 1..Len(sent) :
          sent[i].kind = "ok" =>
              /\ i = Len(sent)
              /\ e_pc # "attempt"
              /\ ~ClientRaised

\* C20: a 422 response is the last request of its call of
\* generate_completion, the call has raised LMStudioError, and no wait
\* followed the response: the waits are those after the requests before it.
C20_ValidationEndsCall ==
    \A i \in 1..Len(sent) :
        sent[i].kind = "validation_error" =>
            /\ i = Len(sent)
            /\ ClientRaised
            /\ exc.cause = "LMStudioError"
            /\ Len(waits) = Len(sent) - 1

\* Every attempt of the call was made and failed by a timeout, a network
\* error or an HTTP failure, and the call has raised.
AllAttemptsFailed ==
    /\ ClientRaised
    /\ Len(sent) = max_retries
    /\ \A i \in 1..Len(sent) : sent[i].kind \in TransientFailures

\* C21: when all max_retries attempts of generate_completion failed
\* transiently, the call has raised an LMStudioError whose reason is the
\* failure of the last attempt, whatever the failures before it were.
C21_LastReason ==
    AllAttemptsFailed =>
        /\ exc.cause = "LMStudioError"
        /\ exc.reason = sent[Len(sent)].kind

\* All attempts failed, the first by a timeout and the last by an HTTP
\* failure, which is the reason raised.
C21_Witness ==
    /\ AllAttemptsFailed
    /\ sent[1].kind = "timeout"
    /\ sent[max_retries].kind = "http_error"
    /\ exc.reason = "http_error"

\* The waits of a call whose k-th request has failed and is followed by
\* another: 2^0, 2^1, ...
SpecifiedWaits(k) == [i \in 1..k |-> 2 ^ (i - 1)]

\* C22: the waits of a generate_completion call are 2^0, 2^1, ... in this
\* order, one after each failed attempt that another attempt follows: as
\* many as requests were sent while the loop runs on, and one less than the
\* requests once the call has ended, so that none precedes the first
\* attempt and none follows the last.
C22_Backoff ==
    waits = SpecifiedWaits(IF e_pc = "attempt" THEN Len(sent)
                           ELSE IF sent = <<>> THEN 0
                           ELSE Len(sent) - 1)

\* A call that ended after a timeout and a network error were waited for
\* and the third attempt failed too: the waits are 1 and 2.
C22_Witness ==
    /\ AllAttemptsFailed
    /\ sent[1].kind = "timeout"
    /\ sent[2].kind = "network_error"
    /\ waits = <<1, 2>>

(***************************************************************************)
(* Properties of check_connection                                          *)
(***************************************************************************)
\* The identifiers the last check was answered with.
ListedIds == check.answer.ids

\* The listing of the last check succeeded.
ListingSucceeded == check.result = "True"

IsListed(name) == \E i \in 1..Len(ListedIds) : ListedIds[i] = name

\* The name is part of a listed identifier when case is ignored.
IsContained(name) ==
    \E i \in 1..Len(ListedIds) :
        IsSubstring(StrLower(name), StrLower(ListedIds[i]))

\* C23 as stated: check_connection changes the configured name only when
\* the listing succeeded and the name is not one of the listed identifiers,
\* and then to the first of them; after a successful check with a listing
\* that is not empty the name is one of the listed identifiers; after a
\* failed check the name is unchanged.
C23_ListedName ==
    check # NoValue =>
        /\ model_name # check.before =>
              ListingSucceeded /\ ~IsListed(check.before)
        /\ (ListingSucceeded /\ ~IsListed(check.before)
              /\ ListedIds # <<>>) => model_name = ListedIds[1]
        /\ (ListingSucceeded /\ ListedIds # <<>>) => IsListed(model_name)
        /\ ~ListingSucceeded => model_name = check.before

\* C23, amended: the test is whether the name is part of a listed
\* identifier, case ignored.  check_connection changes the configured name
\* only when the listing succeeded and the name is part of no listed
\* identifier, and then to the first of them; after a successful check
\* with a listing that is not empty the name is part of a listed
\* identifier; after a failed check the name is unchanged.
C23_ContainedName ==
    check # NoValue =>
        /\ model_name # check.before =>
              ListingSucceeded /\ ~IsContained(check.before)
        /\ (ListingSucceeded /\ ~IsContained(check.before)
              /\ ListedIds # <<>>) => model_name = ListedIds[1]
        /\ (ListingSucceeded /\ ListedIds # <<>>) => IsContained(model_name)
        /\ ~ListingSucceeded => model_name = check.before

\* A successful check left the configured name alone because an identifier
\* of the listing contains it in other case, though none equals it.
C23_Witness ==
    /\ check # NoValue
    /\ ListingSucceeded
    /\ check.before = DefaultModel
    /\ ListedIds = <<"llama-3", "Qwen2.5-7B-Instruct-GGUF">>
    /\ model_name = DefaultModel

\* C29: the model name of the request parameters is the configured name at
\* the moment a generate_completion call starts its loop, it stays what it
\* is while the loop runs, whatever check_connection does to the
\* configuration meanwhile, and every request sent carries it.
C29_ParametersCaptured ==
    [][/\ (e_pc # "attempt" /\ e_pc' = "attempt") => params' = model_name
       /\ e_pc = "attempt" => params' = params
       /\ (sent' # sent /\ sent' # <<>>) =>
             sent'[Len(sent')].model = params]_vars

\* All attempts of a call were made with the name configured at its start
\* although a check changed the configured name before the last of them.
C29_Witness ==
    /\ method = "analyze_multiple_scenarios"
    /\ Len(sent) = max_retries
    /\ \A i \in 1..Len(sent) : sent[i].model = DefaultModel
    /\ model_name = "llama-3"

(***************************************************************************)
(* Properties of the prompt manager                                        *)
(***************************************************************************)
KnownTemplate == get_template(template_name) # None

\* The required fields are strings where they are present, and so are the
\* values format_prompt formats.
PlainFields ==
    /\ \A field \in {"unternehmensname", "branche"} :
          HasKey(company_profile, field) =>
              IsVStr(GetKey(company_profile, field))
    /\ HasKey(use_case, "beschreibung") =>
          IsVStr(GetKey(use_case, "beschreibung"))
    /\ HasKey(company_profile, "digitale_systeme") =>
          IsDict(GetKey(company_profile, "digitale_systeme"))

\* The names of the required fields that are missing, in the order of the
\* check.
MissingNames ==
    (IF Blank(company_profile, "unternehmensname")
     THEN <<"Unternehmen.unternehmensname">> ELSE <<>>)
      \o (IF Blank(company_profile, "branche")
          THEN <<"Unternehmen.branche">> ELSE <<>>)
      \o (IF Blank(use_case, "beschreibung")
          THEN <<"UseCase.beschreibung">> ELSE <<>>)

\* C24 as stated: format_prompt fails when a required field is missing, and
\* fails for a template name that is not registered.
C24_FormatValidates ==
    method = "format_prompt" =>
        /\ (KnownTemplate /\ PlainFields /\ MissingNames # <<>>) => c_ret.raised
        /\ ~KnownTemplate => c_ret = Raised("ValueError")

\* C24, amended: the check of the required fields is validate_template_data,
\* which analyze_use_case calls before format_prompt.  For a registered
\* template it reports the data invalid exactly when a required field is
\* missing and names every missing field; analyze_use_case then fails
\* before any formatting.  format_prompt on its own does not check the
\* fields: it fails with ValueError for a template name that is not
\* registered and formats the prompt of a registered one whatever required
\* field is missing.
C24_ValidationApart ==
    /\ (method = "validate_template_data" /\ KnownTemplate /\ PlainFields) =>
          /\ ~c_ret.raised
          /\ c_ret.result.valid <=> MissingNames = <<>>
          /\ ~c_ret.result.valid => c_ret.result.missing_fields = MissingNames
    /\ (method = "analyze_use_case" /\ KnownTemplate /\ PlainFields
          /\ MissingNames # <<>>) =>
          \A i \in 1..Len(stages) : stages[i] # "build_prompt"
    /\ method = "format_prompt" =>
          /\ ~KnownTemplate => c_ret = Raised("ValueError")
          /\ (KnownTemplate /\ PlainFields) =>
                c_ret = Done(Messages(template_name, company_profile,
                                      use_case))

\* validate_template_data has named two missing fields of a registered
\* template.
C24_Witness ==
    /\ method = "validate_template_data"
    /\ KnownTemplate
    /\ PlainFields
    /\ c_ret.result.missing_fields
         = <<"Unternehmen.branche", "UseCase.beschreibung">>

(***************************************************************************)
(* Properties of the format detection                                      *)
(***************************************************************************)
HasBracket(response) ==
    \E i \in 1..Len(response) :
       response[i] \in {LBrace, RBrace, LBrack, RBrack}

\* The format the keywords of a text stand for, "" for a text with none.
KeywordFormat(response) ==
    IF Contains(response, "projektphasen") THEN "implementation_json"
    ELSE IF Contains(response, "machbarkeit") THEN "quick_json"
    ELSE IF Contains(response, "investition") \/ Contains(response, "roi")
    THEN "roi_json"
    ELSE ""

Detected == expected_format = "auto" /\ fmt # ""

\* C25 as stated: with expected_format "auto" a text with one of the
\* keywords gets the format of the first of them in the order projektphasen,
\* machbarkeit, investition/roi, and only a text with none of them is
\* classified by its brackets.
C25_KeywordsFirst ==
    Detected =>
       fmt = IF KeywordFormat(raw_response) # ""
             THEN KeywordFormat(raw_response)
             ELSE IF HasBracket(raw_response) THEN "structured_json"
             ELSE "text"

\* C25, amended: the brackets are looked at first. A text with a bracket
\* character gets the format of the first keyword in the order
\* projektphasen, machbarkeit, investition/roi, and the full analysis
\* format when it has none of them; a text without any bracket character
\* is plain text whatever keywords it contains.
C25_BracketsFirst ==
    Detected =>
       fmt = IF ~HasBracket(raw_response) THEN "text"
             ELSE IF KeywordFormat(raw_response) # ""
             THEN KeywordFormat(raw_response)
             ELSE "structured_json"

\* A text with a keyword and without brackets has been classified.
C25_Witness ==
    /\ Detected
    /\ KeywordFormat(raw_response) # ""
    /\ ~HasBracket(raw_response)

(***************************************************************************)
(* Properties of the heuristic text paths                                  *)
(***************************************************************************)
\* The strategies run so far that ended in one of the two text extractions.
TextResults ==
    {i \in 1..Len(results) :
        /\ ~results[i].raised
        /\ results[i].result.format_detected
              \in {"structured_text", "fallback_text"}}

\* C26: every result of _extract_structured_text and of
\* _parse_fallback_text has a confidence of at most 0.4, however many
\* sections and list items were recognised.
C26_TextConfidenceCapped ==
    \A i \in TextResults : RGe(Rat(4, 10), results[i].result.confidence)

(***************************************************************************)
(* Properties of the repair of candidates                                  *)
(***************************************************************************)
\* Every candidate of the sequence that json.loads accepts as it stands is
\* decoded by the strategy to the value of that direct decode.
ParsedUnmodified(candidates) ==
    \A i \in 1..Len(candidates) :
       JsonLoads(candidates[i]).ok =>
          DecodeCandidate(candidates[i]) = JsonLoads(candidates[i])

\* C27: in the fenced-block strategy and in the embedded-object strategy
\* _clean_json_string is applied to a candidate only after the direct parse
\* of the unmodified candidate failed, so a candidate that is valid JSON is
\* parsed as it stands.
C27_RepairAfterFailure ==
    /\ Len(results) >= 2 => ParsedUnmodified(MarkdownCandidates(raw_response))
    /\ Len(results) >= 3 => ParsedUnmodified(JsonCandidates(raw_response))

\* The response of the model is a JSON object that advises against the use
\* case.
AdvisesAgainst(response) ==
    \E decoded \in {JsonLoads(Strip(response))} :
       /\ decoded.ok
       /\ IsDict(decoded.val)
       /\ HasKey(decoded.val, "empfehlung")
       /\ GetKey(decoded.val, "empfehlung")
             \in {VStr("no-go"), VStr("überdenken")}

\* C28: quick_feasibility_check never returns feasible = true for a
\* response that is a JSON object whose empfehlung is "no-go" or
\* "überdenken", whichever other fields of the quick-feasibility schema the
\* object has.
C28_NoGoNeverFeasible ==
    (QuickReturned /\ ~QuickFailed /\ AdvisesAgainst(raw_response)) =>
        ~q_ret.feasible

(***************************************************************************)
(* Properties of the main window                                           *)
(***************************************************************************)
\* The handler that runs in this step.
Handles(handler) == event' # NoValue /\ event'.handler = handler

\* The save attempted in this step stores the document: a form is shown,
\* its required fields are filled and the storage does not fail.
SaveGoesThrough ==
    /\ current_document_type # ""
    /\ ~IsBlank(form_entries.first)
    /\ ~IsBlank(form_entries.second)
    /\ event'.storage = "saved"

\* This step saves successfully, from the button or on closing.
SavesInStep ==
    /\ \/ Handles("save_current_document")
       \/ Handles("on_closing") /\ event'.response = "yes"
    /\ SaveGoesThrough

\* This step builds a form, empty or for a document loaded.
BuildsForm ==
    \/ Handles("show_form")
    \/ /\ Handles("load_document")
       /\ event'.storage \in {"use_case", "company_profile"}

=============================================================================
